---------------------------- MODULE Spec2Model ----------------------------
(***************************************************************************)
(* A model of the cloudify terraform plugin (cloudify_tf/utils.py and      *)
(* cloudify_tf/tasks.py).                                                  *)
(*                                                                         *)
(* Strings that the code slices, searches or compares (paths, archive      *)
(* names, base64 text) are sequences of one-character strings, so that     *)
(* s[n:], "a in b", endswith and os.path.join are computed as Python       *)
(* computes them.  File contents are sequences of bytes (0..255).          *)
(***************************************************************************)
EXTENDS Integers, Sequences, FiniteSets, TLC

VARIABLES
    fs,     \* the file system: [files: path -> bytes, dirs: set of paths]
    pc,     \* position of the operation in progress
    cin,    \* arguments of the archive codec calls under check
    arc,    \* the archive file written by the last _zip_archive
    err,    \* the exception the last call raised, or NoError
    bin,    \* the bytes of the file given to _file_to_base64
    text,   \* the text _file_to_base64 returned
    bout,   \* the bytes base64.decode wrote from the text
    rp,     \* ctx.instance.runtime_properties: a dict, key -> value
    plan_json,  \* the plan given to the last refresh_resources_drifts_properties
    tf_state,   \* the state given to the last refresh_resources_properties
    np,     \* ctx.node.properties and the relationship of the instance
    op      \* the operation in progress: its inputs and what it has seen

vars == <<fs, pc, cin, arc, err, bin, text, bout, rp, plan_json, tf_state,
          np, op>>
ctxVars == <<np, op>>
recVars == <<rp, plan_json, tf_state>>
codecVars == <<cin, arc>>
b64Vars == <<bin, text, bout>>

(***************************************************************************)
(* Python values                                                           *)
(***************************************************************************)

\* Python's None where a string is expected: a sequence that is no string
\* (its one element is not a single character).
None == <<"None">>

NoError == "none"

\* "if not x" / "if x" for x a string or None
Truthy(x) == x # None /\ x # << >>

\* "v = x" followed by F(v): x is computed once, however often F reads v
Bind(x, F(_)) == CHOOSE y \in { F(v) : v \in { x } } : TRUE

(***************************************************************************)
(* Dicts: functions from keys to values                                    *)
(***************************************************************************)

EmptyDict == << >>

\* d.get(k, default)
DictGet(d, k, default) == IF k \in DOMAIN d THEN d[k] ELSE default

\* d[k] = v
DictSet(d, k, v) == [x \in (DOMAIN d) \cup {k} |-> IF x = k THEN v ELSE d[x]]

\* d.pop(k, None)
DictPop(d, k) == [x \in (DOMAIN d) \ {k} |-> d[x]]

(***************************************************************************)
(* Strings                                                                 *)
(***************************************************************************)

Last(s) == s[Len(s)]

\* s[n:]
Drop(s, n) == IF n >= Len(s) THEN << >> ELSE SubSeq(s, n + 1, Len(s))

\* s[:n]
Take(s, n) == IF n >= Len(s) THEN s ELSE SubSeq(s, 1, n)

\* s.startswith(p)
StartsWith(s, p) == Len(p) <= Len(s) /\ SubSeq(s, 1, Len(p)) = p

\* s.endswith(p)
EndsWith(s, p) == Len(p) <= Len(s) /\ SubSeq(s, Len(s) - Len(p) + 1, Len(s)) = p

\* "needle in hay" for two strings
Contains(hay, needle) ==
    \E i \in 0..(Len(hay) - Len(needle)) :
        SubSeq(hay, i + 1, i + Len(needle)) = needle

\* index of the last "/" of s, 0 when there is none
LastSep(s) ==
    IF \E i \in 1..Len(s) : s[i] = "/"
    THEN CHOOSE i \in 1..Len(s) : s[i] = "/" /\ \A j \in (i+1)..Len(s) : s[j] # "/"
    ELSE 0

\* os.path.join(a, b)
Join(a, b) ==
    IF Len(b) > 0 /\ b[1] = "/" THEN b
    ELSE IF a = << >> \/ Last(a) = "/" THEN a \o b
    ELSE a \o <<"/">> \o b

\* ntpath.basename(p): what follows the last separator
Basename(p) == Drop(p, LastSep(p))

\* os.path.dirname(p) of a normalised absolute path
Dirname(p) == IF LastSep(p) <= 1 THEN <<"/">> ELSE Take(p, LastSep(p) - 1)

\* The file the kernel resolves a path string to: repeated and trailing
\* separators do not count.
RECURSIVE Norm(_)
Norm(s) ==
    IF Len(s) <= 1 THEN s
    ELSE IF s[1] = "/" /\ s[2] = "/" THEN Norm(Tail(s))
    ELSE IF Len(s) = 2 /\ s[2] = "/" THEN <<s[1]>>
    ELSE <<s[1]>> \o Norm(Tail(s))

\* the characters of file names, in their order
Names_Chars ==
    << ".", "/", "0", "1", "2", "3", "4", "5", "6", "7", "8", "9",
       "a", "b", "c", "d", "e", "f", "g", "h", "i", "j", "k", "l", "m",
       "n", "o", "p", "q", "r", "s", "t", "u", "v", "w", "x", "y", "z" >>

\* all orders of a finite set
RECURSIVE PermsOf(_)
PermsOf(S) ==
    IF S = {} THEN { << >> }
    ELSE UNION { { <<x>> \o p : p \in PermsOf(S \ {x}) } : x \in S }

\* one sequence from each set of a sequence of sets, concatenated
RECURSIVE ConcatChoices(_)
ConcatChoices(ss) ==
    IF ss = << >> THEN { << >> }
    ELSE { a \o b : a \in Head(ss), b \in ConcatChoices(Tail(ss)) }

(***************************************************************************)
(* The file system                                                         *)
(***************************************************************************)

EmptyFS == [files |-> << >>, dirs |-> { <<"/">> }]

\* every ancestor directory of a normalised absolute path
Ancestors(p) == { Take(p, i - 1) : i \in { j \in 2..Len(p) : p[j] = "/" } } \cup { <<"/">> }

\* os.path.isfile(f)
IsFile(fsr, f) == Truthy(f) /\ Last(f) # "/" /\ Norm(f) \in DOMAIN fsr.files

\* os.path.isdir(f)
IsDir(fsr, f) == Truthy(f) /\ Norm(f) \in fsr.dirs

\* os.path.exists(f)
Exists(fsr, f) == IsFile(fsr, f) \/ IsDir(fsr, f)

\* the file at path p written with content d, its directories made
WriteFile(fsr, p, d) ==
    [files |-> [q \in (DOMAIN fsr.files) \cup {p} |->
                    IF q = p THEN d ELSE fsr.files[q]],
     dirs  |-> fsr.dirs \cup Ancestors(p)]

\* os.remove(p)
RemoveFile(fsr, p) ==
    [fsr EXCEPT !.files = [q \in (DOMAIN fsr.files) \ {p} |-> fsr.files[q]]]

\* mkdir_p(d)
MkdirP(fsr, d) == [fsr EXCEPT !.dirs = fsr.dirs \cup Ancestors(d) \cup {d}]

\* a write to p fails: a directory is in the way, or a file is where a
\* directory is needed
WriteBlocked(fsr, p) ==
    p \in fsr.dirs \/ \E a \in Ancestors(p) : a \in DOMAIN fsr.files

(***************************************************************************)
(* Archive codec: _zip_archive and its exclusion helpers                   *)
(***************************************************************************)

\* An archive is the sequence of its entries, [name, data], in the order
\* they were written (ZipFile.namelist() order).

\* exclude_file(dirname, filename, excluded_files)
exclude_file(fsr, dirname, filename, excluded_files) ==
    LET rel_path == Join(dirname, filename)
    IN \E i \in 1..Len(excluded_files) :
          LET f == excluded_files[i]
          IN /\ Truthy(f)
             /\ \/ IsFile(fsr, f) /\ rel_path = f
                \/ ~(IsFile(fsr, f) /\ rel_path = f)
                     /\ IsDir(fsr, f) /\ Contains(rel_path, f)

\* exclude_dirs(dirname, subdirs, excluded_files): the subdirs left to walk
exclude_dirs(fsr, dirname, subdirs, excluded_files) ==
    LET rel_subdirs == { Join(dirname, d) : d \in subdirs }
        removed == { Basename(excluded_files[i]) :
                        i \in { j \in 1..Len(excluded_files) :
                                  /\ Truthy(excluded_files[j])
                                  /\ IsDir(fsr, excluded_files[j])
                                  /\ excluded_files[j] \in rel_subdirs } }
    IN subdirs \ removed

\* The name ZipFile.write stores for arcname: leading separators dropped.
RECURSIVE ZipArcName(_)
ZipArcName(n) == IF Len(n) > 0 /\ n[1] = "/" THEN ZipArcName(Tail(n)) ELSE n

\* file_to_add[len(extracted_source)+1:]
ArcNameOf(file_to_add, extracted_source) ==
    Drop(file_to_add, Len(extracted_source) + 1)

\* a is b or comes before it in the order of names
RECURSIVE NameLeq(_, _)
NameLeq(a, b) ==
    IF a = << >> THEN TRUE
    ELSE IF b = << >> THEN FALSE
    ELSE IF Head(a) = Head(b) THEN NameLeq(Tail(a), Tail(b))
    ELSE \E i, j \in 1..Len(Names_Chars) :
            Names_Chars[i] = Head(a) /\ Names_Chars[j] = Head(b) /\ i < j

\* the names of S in the order of names
RECURSIVE ByName(_)
ByName(S) ==
    IF S = {} THEN << >>
    ELSE LET x == CHOOSE y \in S : \A z \in S : NameLeq(y, z)
         IN <<x>> \o ByName(S \ {x})

\* The orders in which a directory listing can give the names S: any
\* order, or, where the file system lists by name, that one.
Listings(S, listing) == IF listing = "by name" THEN { ByName(S) } ELSE PermsOf(S)

\* The os.walk loop of _zip_archive from dir_name down: every archive it can
\* write (a directory's own files first, then its subdirectories, each in
\* the order the directory listing gives).
RECURSIVE WalkZip(_, _, _, _, _)
WalkZip(fsr, extracted_source, dir_name, exclude_files, listing) ==
    LET here == Norm(dir_name)
        filenames == { Basename(f) : f \in { g \in DOMAIN fsr.files : Dirname(g) = here } }
        listed == { Basename(d) : d \in { e \in fsr.dirs : e # <<"/">> /\ Dirname(e) = here } }
        subdirs == exclude_dirs(fsr, dir_name, listed, exclude_files)
        kept == { fn \in filenames : ~exclude_file(fsr, dir_name, fn, exclude_files) }
        entry(fn) == [name |-> ZipArcName(ArcNameOf(Join(dir_name, fn), extracted_source)),
                      data |-> fsr.files[Norm(Join(dir_name, fn))]]
        fileSeqs == { [i \in 1..Len(o) |-> entry(o[i])] : o \in Listings(kept, listing) }
        subSeqs == UNION { ConcatChoices(
                              [i \in 1..Len(o) |->
                                 WalkZip(fsr, extracted_source, Join(dir_name, o[i]),
                                         exclude_files, listing)]) :
                           o \in Listings(subdirs, listing) }
    IN { f \o s : f \in fileSeqs, s \in subSeqs }

\* _zip_archive(extracted_source, exclude_files) on a file system that
\* lists its directories as said: the archives it can write
\* ("exclude_files or []": None is an empty list)
zip_archive_listed(fsr, extracted_source, exclude_files, listing) ==
    LET excl == IF exclude_files = None THEN << >> ELSE exclude_files
    IN IF IsDir(fsr, extracted_source)
       THEN WalkZip(fsr, extracted_source, extracted_source, excl, listing)
       ELSE { << >> }

\* _zip_archive(extracted_source, exclude_files), whatever the listing order
zip_archive(fsr, extracted_source, exclude_files) ==
    zip_archive_listed(fsr, extracted_source, exclude_files, "any")

(***************************************************************************)
(* Archive codec: _unzip_archive                                           *)
(***************************************************************************)

\* ZipFile.getinfo(name): the last entry written under that name
DataOf(archive, name) ==
    LET i == CHOOSE k \in 1..Len(archive) :
                /\ archive[k].name = name
                /\ \A j \in (k+1)..Len(archive) : archive[j].name # name
    IN archive[i].data

\* zip_ref.extract(p, target_directory)
Extract(r, archive, target_directory, p) ==
    LET dest == Norm(Join(target_directory, p))
    IN IF r.err # NoError THEN r
       ELSE IF WriteBlocked(r.fs, dest) THEN [r EXCEPT !.err = "OSError"]
       ELSE [r EXCEPT !.fs = WriteFile(r.fs, dest, DataOf(archive, p))]

\* zip_ref.extractall(target_directory)
RECURSIVE ExtractAll(_, _, _, _)
ExtractAll(r, archive, target_directory, i) ==
    IF i > Len(archive) THEN r
    ELSE ExtractAll(Extract(r, archive, target_directory, archive[i].name),
                    archive, target_directory, i + 1)

\* os.rename(src, dst) of a file
Rename(r, src, dst) ==
    IF r.err # NoError \/ src = dst THEN r
    ELSE IF WriteBlocked(r.fs, dst) THEN [r EXCEPT !.err = "OSError"]
    ELSE [r EXCEPT !.fs = RemoveFile(WriteFile(r.fs, dst, r.fs.files[src]), src)]

\* One pass of the "for p in zip_ref.namelist()" loop of _unzip_archive.
\* "source_path in p" with source_path None raises TypeError.
UnzipEntry(r, archive, target_directory, source_path, p) ==
    IF r.err # NoError THEN r
    ELSE IF source_path = None THEN [r EXCEPT !.err = "TypeError"]
    ELSE IF Contains(p, source_path)
    THEN Rename(Extract(r, archive, target_directory, p),
                Norm(Join(target_directory, p)),
                Norm(Join(target_directory, Basename(p))))
    ELSE ExtractAll(r, archive, target_directory, 1)

\* "if source_path: if not source_path.endswith('/'): source_path += '/'"
WithSlash(source_path) ==
    IF Truthy(source_path) /\ ~EndsWith(source_path, <<"/">>)
    THEN source_path \o <<"/">> ELSE source_path

RECURSIVE UnzipFrom(_, _, _, _, _)
UnzipFrom(r, archive, target_directory, source_path, i) ==
    IF i > Len(archive) THEN r
    ELSE UnzipFrom(UnzipEntry(r, archive, target_directory, source_path,
                              archive[i].name),
                   archive, target_directory, source_path, i + 1)

\* _unzip_archive(archive_path, target_directory, source_path): the file
\* system it leaves and the exception it raised
unzip_archive(fsr, archive, target_directory, source_path) ==
    LET target == IF EndsWith(target_directory, <<"/">>)
                  THEN target_directory ELSE target_directory \o <<"/">>
    IN UnzipFrom([fs |-> fsr, err |-> NoError], archive, target,
                 WithSlash(source_path), 1)

(***************************************************************************)
(* Names and paths used as inputs                                          *)
(***************************************************************************)

\* "/" + "/".join(names)
RECURSIVE AbsPath(_)
AbsPath(names) ==
    IF names = << >> THEN << >> ELSE <<"/">> \o Head(names) \o AbsPath(Tail(names))

\* the path p relative to the directory root (both normalised, p below root)
RelTo(p, root) == Drop(p, Len(root) + 1)

\* p is the directory d or lies below it
Under(p, d) == p = d \/ StartsWith(p, d \o <<"/">>)

N_mn == <<"m", "n">>         \* a template file (main.tf)
N_vr == <<"v", "r">>         \* a second template file (vars.tf)
N_ot == <<"o", "t">>         \* a third template file (outputs.tf)
N_sb == <<"s", "b">>         \* a sub-directory of the template
N_dp == <<"d", "p">>         \* a directory nested below it
N_aa == <<"a", "a">>         \* another directory
N_tf == <<"t", "f">>         \* the driver executable (terraform)
N_pl == <<"p", "l">>         \* the plugins directory
N_pv == <<"p", "v">>         \* a provider plugin binary
N_plk == <<"p", "l", "k">>   \* a file whose name starts like the plugins directory
N_zz == <<"z", "z">>         \* a name no file has

(***************************************************************************)
(* SpecCodec: _zip_archive of a directory, then _unzip_archive of the      *)
(* archive into an empty directory                                         *)
(***************************************************************************)

\* the most files a packed tree holds
MaxFiles == 3

CodecSrc == AbsPath(<<<<"s">>>>)        \* the directory packed
CodecDst == AbsPath(<<<<"w">>>>)        \* the directory unpacked into

\* the files a packed tree may hold, each with its own content
CodecFiles ==
    << AbsPath(<<<<"s">>, N_mn>>),
       AbsPath(<<<<"s">>, N_sb, N_vr>>),
       AbsPath(<<<<"s">>, N_sb, N_dp, N_ot>>),
       AbsPath(<<<<"s">>, N_aa, N_sb, N_ot>>),
       AbsPath(<<<<"s">>, N_tf>>),
       AbsPath(<<<<"s">>, N_pl, N_pv>>),
       AbsPath(<<<<"s">>, N_plk>>) >>

RECURSIVE WriteAll(_, _)
WriteAll(fsr, idx) ==
    IF idx = {} THEN fsr
    ELSE LET i == CHOOSE k \in idx : TRUE
         IN WriteAll(WriteFile(fsr, CodecFiles[i], <<i>>), idx \ {i})

CodecTrees ==
    { WriteAll(MkdirP(MkdirP(EmptyFS, CodecSrc), CodecDst), idx) :
        idx \in { x \in SUBSET (1..Len(CodecFiles)) : Cardinality(x) <= MaxFiles } }

CodecExe == AbsPath(<<<<"s">>, N_tf>>)
CodecPlugins == AbsPath(<<<<"s">>, N_pl>>)

CodecInputs ==
    [ root        : { CodecSrc, CodecSrc \o <<"/">> },
      excludes    : { None, <<CodecExe, CodecPlugins>>, <<None, CodecPlugins>> },
      target      : { CodecDst },
      source_path : { None, << >>, N_sb, N_zz } ]

NoCodec == [root |-> None, excludes |-> None, target |-> None, source_path |-> None]

IdleB64 == bin = << >> /\ text = << >> /\ bout = << >>

IdleRec == rp = EmptyDict /\ plan_json = EmptyDict /\ tf_state = EmptyDict

IdleCtx == np = EmptyDict /\ op = EmptyDict

InitCodec ==
    /\ fs \in CodecTrees
    /\ cin \in CodecInputs
    /\ pc = "codec"
    /\ arc = << >>
    /\ err = NoError
    /\ IdleB64
    /\ IdleRec
    /\ IdleCtx

\* archived_file = _zip_archive(root, exclude_files=excludes)
ZipArchive ==
    /\ pc = "codec"
    /\ arc' \in zip_archive(fs, cin.root, cin.excludes)
    /\ pc' = "zipped"
    /\ UNCHANGED <<fs, cin, err, b64Vars, recVars, ctxVars>>

\* _unzip_archive(archived_file, target, source_path)
UnzipArchive ==
    /\ pc = "zipped"
    /\ LET r == unzip_archive(fs, arc, cin.target, cin.source_path)
       IN fs' = r.fs /\ err' = r.err
    /\ pc' = "unzipped"
    /\ UNCHANGED <<cin, arc, b64Vars, recVars, ctxVars>>

NextCodec == ZipArchive \/ UnzipArchive

SpecCodec == InitCodec /\ [][NextCodec]_vars

(***************************************************************************)
(* Claims about the archive codec (SpecCodec)                              *)
(***************************************************************************)

\* The files of the packed tree that the exclude list does not name: a file
\* is excluded when it is an excluded file or lies under an excluded
\* directory.
NonExcluded(fsr, root, excludes) ==
    LET excl == IF excludes = None THEN << >> ELSE excludes
    IN { f \in DOMAIN fsr.files :
           /\ Under(f, Norm(root)) /\ f # Norm(root)
           /\ \A i \in 1..Len(excl) :
                 Truthy(excl[i]) =>
                    /\ ~(IsFile(fsr, excl[i]) /\ Norm(excl[i]) = f)
                    /\ ~(IsDir(fsr, excl[i]) /\ Under(f, Norm(excl[i]))) }

\* the files found under the directory d
FilesUnder(fsr, d) == { f \in DOMAIN fsr.files : Under(f, d) /\ f # d }

\* no entry of the archive matches the rebase sub-path
NoRebaseMatch(archive, source_path) ==
    \/ source_path = None
    \/ \A i \in 1..Len(archive) : ~Contains(archive[i].name, WithSlash(source_path))

\* C3: unpacking the archive that _zip_archive wrote for a directory (its
\* path spelt with or without a trailing separator, any exclude list that
\* leaves a file) gives exactly the non-excluded files, each at its path
\* relative to the root and with its content.  Stated for an unpack whose
\* source_path is a string matching no entry, where nothing is rebased.
C3_RoundTrip ==
    (/\ pc = "unzipped"
     /\ cin.source_path # None
     /\ NoRebaseMatch(arc, cin.source_path)
     /\ NonExcluded(fs, cin.root, cin.excludes) # {})
    => /\ err = NoError
       /\ FilesUnder(fs, CodecDst) =
            { Join(CodecDst, RelTo(f, CodecSrc)) :
                f \in NonExcluded(fs, cin.root, cin.excludes) }
       /\ \A f \in NonExcluded(fs, cin.root, cin.excludes) :
            fs.files[Join(CodecDst, RelTo(f, CodecSrc))] = fs.files[f]

\* C6: with source_path None, or a source_path that matches no entry,
\* _unzip_archive raises nothing and every entry is extracted under its
\* archive name.
C6_UnpackVerbatim ==
    (pc = "unzipped" /\ NoRebaseMatch(arc, cin.source_path))
    => /\ err = NoError
       /\ \A i \in 1..Len(arc) :
            /\ Join(CodecDst, arc[i].name) \in DOMAIN fs.files
            /\ fs.files[Join(CodecDst, arc[i].name)] = DataOf(arc, arc[i].name)

\* C7: with a source_path, exactly the entries whose name starts with it
\* are rebased: each is found at the target under its name with the prefix
\* stripped (what is nested below the prefix kept), and an entry that has
\* the source_path elsewhere in its name stays under its archive name.
C7_UnpackRebase ==
    (pc = "unzipped" /\ Truthy(cin.source_path))
    => /\ err = NoError
       /\ \A i \in 1..Len(arc) :
            LET p == arc[i].name
                landed == IF StartsWith(p, WithSlash(cin.source_path))
                          THEN Join(CodecDst, Drop(p, Len(WithSlash(cin.source_path))))
                          ELSE Join(CodecDst, p)
            IN /\ landed \in DOMAIN fs.files
               /\ fs.files[landed] = DataOf(arc, p)

(***************************************************************************)
(* Text transcoding: _file_to_base64 and the base64.decode of              *)
(* extract_binary_tf_data                                                  *)
(***************************************************************************)

\* the base64 alphabet: character i+1 stands for the six bits i
B64Alphabet ==
    << "A", "B", "C", "D", "E", "F", "G", "H", "I", "J", "K", "L", "M",
       "N", "O", "P", "Q", "R", "S", "T", "U", "V", "W", "X", "Y", "Z",
       "a", "b", "c", "d", "e", "f", "g", "h", "i", "j", "k", "l", "m",
       "n", "o", "p", "q", "r", "s", "t", "u", "v", "w", "x", "y", "z",
       "0", "1", "2", "3", "4", "5", "6", "7", "8", "9", "+", "/" >>

B64Char(six) == B64Alphabet[six + 1]

\* the six bits of a character, 64 for a character outside the alphabet
B64Value(c) ==
    IF \E i \in 1..64 : B64Alphabet[i] = c
    THEN (CHOOSE i \in 1..64 : B64Alphabet[i] = c) - 1
    ELSE 64

\* base64.MAXBINSIZE: the bytes base64.encode reads for one line of text
MAXBINSIZE == 57

\* binascii.b2a_base64 without the newline: each three bytes give four
\* characters; a last group of one or two bytes is padded with "=".
\* Character 4g+k of the text comes from bytes 3g+1..3g+3.
B2A(b) ==
    LET byte(i) == IF i <= Len(b) THEN b[i] ELSE 0
        char(g, k) ==
            IF k = 1 THEN B64Char(byte(3*g + 1) \div 4)
            ELSE IF k = 2
            THEN B64Char((byte(3*g + 1) % 4) * 16 + byte(3*g + 2) \div 16)
            ELSE IF k = 3
            THEN IF 3*g + 2 > Len(b) THEN "="
                 ELSE B64Char((byte(3*g + 2) % 16) * 4 + byte(3*g + 3) \div 64)
            ELSE IF 3*g + 3 > Len(b) THEN "="
                 ELSE B64Char(byte(3*g + 3) % 64)
    IN [i \in 1..(4 * ((Len(b) + 2) \div 3)) |-> char((i - 1) \div 4, ((i - 1) % 4) + 1)]

\* binascii.b2a_base64(s): one line of text
b2a_base64(b) == B2A(b) \o <<"\n">>

\* base64.encode(f, base64_rep) followed by .decode('utf-8'): one line per
\* MAXBINSIZE bytes read
RECURSIVE file_to_base64_lines(_)
file_to_base64_lines(b) ==
    IF Len(b) = 0 THEN << >>
    ELSE b2a_base64(Take(b, MAXBINSIZE)) \o file_to_base64_lines(Drop(b, MAXBINSIZE))

\* a transcoder that encodes only the first block read
file_to_base64_first_block(b) ==
    IF Len(b) = 0 THEN << >> ELSE b2a_base64(Take(b, MAXBINSIZE))

\* _file_to_base64(file_path), on the file's bytes
file_to_base64(b) == file_to_base64_lines(b)

\* binascii.a2b_base64(line).  The decoder reads the line character by
\* character: a character outside the alphabet is skipped; "=" ends the
\* decoding when at least two characters of the current group were read
\* and the "=" seen since complete the group, and is skipped otherwise;
\* every other character gives six bits, and a byte is written as soon as
\* eight are there.  Ending inside a group is an error.
a2b_base64(line) ==
    LET isData(i) == B64Value(line[i]) < 64
        dataBefore(i) == Cardinality({ k \in 1..(i-1) : isData(k) })
        padsBefore(i) ==
            Cardinality({ k \in 1..(i-1) :
                            line[k] = "=" /\ \A q \in k..(i-1) : ~isData(q) })
        stops(i) == /\ line[i] = "="
                    /\ dataBefore(i) % 4 >= 2
                    /\ (dataBefore(i) % 4) + padsBefore(i) + 1 >= 4
        stopAt == IF \E i \in 1..Len(line) : stops(i)
                  THEN CHOOSE i \in 1..Len(line) :
                          stops(i) /\ \A k \in 1..(i-1) : ~stops(k)
                  ELSE Len(line) + 1
        decode(stop, vals) ==
            LET n == Len(vals)
                quad_pos == n % 4
                count == 3 * (n \div 4) + (IF quad_pos >= 2 THEN quad_pos - 1 ELSE 0)
                byte(g, k) ==
                    IF k = 1 THEN (vals[4*g + 1] * 4 + vals[4*g + 2] \div 16) % 256
                    ELSE IF k = 2 THEN (vals[4*g + 2] * 16 + vals[4*g + 3] \div 4) % 256
                    ELSE (vals[4*g + 3] * 64 + vals[4*g + 4]) % 256
            IN [out |-> [j \in 1..count |-> byte((j - 1) \div 3, ((j - 1) % 3) + 1)],
                err |-> IF quad_pos = 0 \/ stop <= Len(line)
                        THEN NoError ELSE "binascii.Error"]
    IN Bind(stopAt, LAMBDA stop :
       Bind(SelectSeq([i \in 1..(stop - 1) |-> B64Value(line[i])], LAMBDA v : v < 64),
            LAMBDA vals : decode(stop, vals)))

\* input.readline(): the text up to and with its first newline
ReadLine(t) ==
    IF \E i \in 1..Len(t) : t[i] = "\n"
    THEN Take(t, CHOOSE i \in 1..Len(t) :
                     t[i] = "\n" /\ \A j \in 1..(i-1) : t[j] # "\n")
    ELSE t

\* base64.decode(StringIO(data), f): each line decoded and written
RECURSIVE base64_decode(_, _)
base64_decode(t, r) ==
    IF r.err # NoError \/ Len(t) = 0 THEN r
    ELSE Bind(ReadLine(t), LAMBDA line :
         Bind(a2b_base64(line), LAMBDA d :
         Bind([out |-> r.out \o d.out, err |-> d.err], LAMBDA written :
              base64_decode(Drop(t, Len(line)), written))))

\* the temporary file extract_binary_tf_data writes from the stored text
text_to_file(t) == base64_decode(t, [out |-> << >>, err |-> NoError])

(***************************************************************************)
(* SpecB64: _file_to_base64 of a file, then base64.decode of the text      *)
(***************************************************************************)

\* the longest file transcoded
MaxBinLen == 59

\* byte i of a file: first + (i-1) * step, modulo 256
PatternFile(n, first, step) == [i \in 1..n |-> (first + (i - 1) * step) % 256]

B64Files ==
    { PatternFile(n, first, step) :
        n \in 0..MaxBinLen, first \in {0, 10, 255}, step \in {0, 1, 85, 127} }

IdleCodec == cin = NoCodec /\ arc = << >>

InitB64 ==
    /\ bin \in B64Files
    /\ text = << >>
    /\ bout = << >>
    /\ pc = "b64"
    /\ err = NoError
    /\ fs = EmptyFS
    /\ IdleCodec
    /\ IdleRec
    /\ IdleCtx

\* base64_rep = _file_to_base64(file_path)
FileToBase64 ==
    /\ pc = "b64"
    /\ text' = file_to_base64(bin)
    /\ pc' = "encoded"
    /\ UNCHANGED <<fs, err, bin, bout, codecVars, recVars, ctxVars>>

\* base64.decode(StringIO(data), f)
DecodeBase64 ==
    /\ pc = "encoded"
    /\ LET r == text_to_file(text)
       IN bout' = r.out /\ err' = r.err
    /\ pc' = "decoded"
    /\ UNCHANGED <<fs, bin, text, codecVars, recVars, ctxVars>>

NextB64 == FileToBase64 \/ DecodeBase64

SpecB64 == InitB64 /\ [][NextB64]_vars

\* C5: decoding the text that _file_to_base64 produced for a file gives
\* back the file, byte for byte, and raises nothing.
C5_TranscodeInverse ==
    pc = "decoded" => (err = NoError /\ bout = bin)

\* a file longer than one line of text whose last group is partial has been
\* encoded and decoded
C5_Witness ==
    /\ pc = "decoded"
    /\ Len(bin) > MAXBINSIZE
    /\ Len(bin) % 3 # 0
    /\ \E i \in 1..Len(bin) : bin[i] = 255
    /\ Len(text) > Len(bin)

(***************************************************************************)
(* State and drift reconciler                                              *)
(***************************************************************************)

\* a reconciler that takes only no-op for "not drifted"
IsDriftNoOpOnly(change) == change["actions"] # <<"no-op">>

\* "change['actions'] not in [['no-op'], ['read']]"
IsDrift(change) == change["actions"] \notin { <<"no-op">>, <<"read">> }

\* the loop of refresh_resources_drifts_properties from change i on; acc is
\* [is_drifted, drifts] as set so far
RECURSIVE DriftLoop(_, _, _)
DriftLoop(resource_changes, i, acc) ==
    IF i > Len(resource_changes) THEN acc
    ELSE LET change == resource_changes[i]["change"]
         IN DriftLoop(resource_changes, i + 1,
                IF IsDrift(change)
                THEN [is_drifted |-> TRUE,
                      drifts |-> DictSet(acc.drifts, resource_changes[i]["name"], change)]
                ELSE acc)

\* a projection that does not start from is_drifted = False: the flag of
\* the projection before stays when the plan has no drift
refresh_resources_drifts_properties_no_reset(props, plan) ==
    LET r == DriftLoop(DictGet(plan, "resource_changes", << >>), 1,
                       [is_drifted |-> DictGet(props, "is_drifted", FALSE),
                        drifts |-> EmptyDict])
    IN DictSet(DictSet(props, "is_drifted", r.is_drifted), "drifts", r.drifts)

\* refresh_resources_drifts_properties(plan_json): the runtime properties
\* it leaves
refresh_resources_drifts_properties(props, plan) ==
    LET r == DriftLoop(DictGet(plan, "resource_changes", << >>), 1,
                       [is_drifted |-> FALSE, drifts |-> EmptyDict])
    IN DictSet(DictSet(props, "is_drifted", r.is_drifted), "drifts", r.drifts)

\* the first loop of refresh_resources_properties
RECURSIVE TopLoop(_, _, _)
TopLoop(resources, i, acc) ==
    IF i > Len(resources) THEN acc
    ELSE TopLoop(resources, i + 1, DictSet(acc, resources[i]["name"], resources[i]))

\* a reconciler in which a resource already listed is not overwritten
ModuleItemsKeepFirst(module, acc) ==
    LET items == DictGet(module, "resources", EmptyDict)
    IN [n \in (DOMAIN acc) \cup (DOMAIN items) |->
            IF n \in DOMAIN acc THEN acc[n] ELSE items[n]]

\* "for name, definition in module.get('resources', {}).items()": every
\* name of the module's dict is set, in any order (the names are distinct)
ModuleItems(module, acc) ==
    LET items == DictGet(module, "resources", EmptyDict)
    IN [n \in (DOMAIN acc) \cup (DOMAIN items) |->
            IF n \in DOMAIN items THEN items[n] ELSE acc[n]]

\* the second loop of refresh_resources_properties
RECURSIVE ModuleLoop(_, _, _)
ModuleLoop(modules, i, acc) ==
    IF i > Len(modules) THEN acc
    ELSE ModuleLoop(modules, i + 1, ModuleItems(modules[i], acc))

\* refresh_resources_properties(state): the runtime properties it leaves
refresh_resources_properties(props, state) ==
    LET resources ==
            ModuleLoop(DictGet(state, "modules", << >>), 1,
                       TopLoop(DictGet(state, "resources", << >>), 1, EmptyDict))
    IN DictSet(DictSet(props, "resources", resources), "state", resources)

(***************************************************************************)
(* SpecDrift: any sequence of drift projections on one instance            *)
(***************************************************************************)

\* the most resource changes in a plan
MaxChanges == 2

\* all sequences over S of length 0..n
SeqsUpTo(S, n) == UNION { [1..k -> S] : k \in 0..n }

ResourceNames == { "vpc", "subnet" }

\* the change objects of a plan: the actions, and "after" standing for the
\* rest of the object
Changes ==
    { [actions |-> <<"no-op">>, after |-> 1],
      [actions |-> <<"read">>, after |-> 1],
      [actions |-> <<"update">>, after |-> 1],
      [actions |-> <<"update">>, after |-> 2],
      [actions |-> <<"delete", "create">>, after |-> 1] }

ResourceChanges == [name : ResourceNames, change : Changes]

\* the plans: "resource_changes" missing, or a list
Plans ==
    { EmptyDict } \cup
    { [resource_changes |-> l] : l \in SeqsUpTo(ResourceChanges, MaxChanges) }

IdleFiles == fs = EmptyFS /\ IdleCodec /\ IdleB64

InitDrift ==
    /\ rp = EmptyDict
    /\ plan_json = EmptyDict
    /\ tf_state = EmptyDict
    /\ pc = "idle"
    /\ err = NoError
    /\ IdleFiles
    /\ IdleCtx

RefreshDrifts ==
    /\ \E plan \in Plans :
          /\ rp' = refresh_resources_drifts_properties(rp, plan)
          /\ plan_json' = plan
    /\ pc' = "drifts"
    /\ UNCHANGED <<fs, err, tf_state, codecVars, b64Vars, ctxVars>>

NextDrift == RefreshDrifts

SpecDrift == InitDrift /\ [][NextDrift]_vars

\* the positions of the plan's changes that count as drift
Drifting(plan) ==
    LET l == DictGet(plan, "resource_changes", << >>)
    IN { i \in 1..Len(l) : l[i]["change"]["actions"] \notin { <<"no-op">>, <<"read">> } }

\* the change the drift report must hold for a name: the last drifting one
LastDrift(plan, n) ==
    LET l == plan["resource_changes"]
        i == CHOOSE k \in Drifting(plan) :
                /\ l[k]["name"] = n
                /\ \A j \in Drifting(plan) : l[j]["name"] = n => j <= k
    IN l[i]["change"]

\* C8: after refresh_resources_drifts_properties(plan), drifts maps exactly
\* the names of the changes whose actions are neither ["no-op"] nor
\* ["read"], each to its last such change, and is_drifted says whether
\* there is one; nothing of an earlier plan is left.
C8_DriftClassification ==
    pc = "drifts" =>
       LET l == DictGet(plan_json, "resource_changes", << >>)
       IN /\ rp["is_drifted"] = (Drifting(plan_json) # {})
          /\ DOMAIN rp["drifts"] = { l[i]["name"] : i \in Drifting(plan_json) }
          /\ \A n \in DOMAIN rp["drifts"] : rp["drifts"][n] = LastDrift(plan_json, n)

\* a plan with a read, and two drifting changes of one resource of which
\* the last is reported
C8_Witness ==
    /\ pc = "drifts"
    /\ "resource_changes" \in DOMAIN plan_json
    /\ Len(plan_json["resource_changes"]) = 2
    /\ plan_json["resource_changes"][1] =
          [name |-> "vpc", change |-> [actions |-> <<"update">>, after |-> 1]]
    /\ plan_json["resource_changes"][2] =
          [name |-> "vpc", change |-> [actions |-> <<"update">>, after |-> 2]]
    /\ rp["is_drifted"] = TRUE
    /\ rp["drifts"] = [n \in {"vpc"} |-> [actions |-> <<"update">>, after |-> 2]]

(***************************************************************************)
(* SpecInventory: any sequence of inventory projections on one instance    *)
(***************************************************************************)

\* the most entries of state.resources
MaxResources == 2
\* the most entries of state.modules
MaxModules == 1

TopResources ==
    { [name |-> "vpc", rev |-> 1], [name |-> "vpc", rev |-> 2],
      [name |-> "subnet", rev |-> 1] }

\* a module's resources dict: "vpc" missing or 3, "subnet" missing, 3 or 4
ModuleDicts ==
    { [n \in d |-> IF n = "vpc" THEN [rev |-> 3] ELSE [rev |-> r]] :
        d \in SUBSET ResourceNames, r \in {3, 4} }

Modules == { EmptyDict } \cup { [resources |-> d] : d \in ModuleDicts }

States ==
    { [k \in keys |-> IF k = "resources" THEN res ELSE mods] :
        keys \in SUBSET { "resources", "modules" },
        res \in SeqsUpTo(TopResources, MaxResources),
        mods \in SeqsUpTo(Modules, MaxModules) }

InitInventory ==
    /\ rp = EmptyDict
    /\ plan_json = EmptyDict
    /\ tf_state = EmptyDict
    /\ pc = "idle"
    /\ err = NoError
    /\ IdleFiles
    /\ IdleCtx

RefreshResources ==
    /\ \E state \in States :
          /\ rp' = refresh_resources_properties(rp, state)
          /\ tf_state' = state
    /\ pc' = "resources"
    /\ UNCHANGED <<fs, err, plan_json, codecVars, b64Vars, ctxVars>>

NextInventory == RefreshResources

SpecInventory == InitInventory /\ [][NextInventory]_vars

\* the definition the inventory must hold for a name: that of the last
\* module listing it, else that of the last top-level resource of that name
ExpectedResource(state, n) ==
    LET top == DictGet(state, "resources", << >>)
        mods == DictGet(state, "modules", << >>)
        inMods == { i \in 1..Len(mods) : n \in DOMAIN DictGet(mods[i], "resources", EmptyDict) }
        inTop == { i \in 1..Len(top) : top[i]["name"] = n }
    IN IF inMods # {}
       THEN mods[CHOOSE i \in inMods : \A j \in inMods : j <= i]["resources"][n]
       ELSE top[CHOOSE i \in inTop : \A j \in inTop : j <= i]

ExpectedNames(state) ==
    LET top == DictGet(state, "resources", << >>)
        mods == DictGet(state, "modules", << >>)
    IN { top[i]["name"] : i \in 1..Len(top) } \cup
       UNION { DOMAIN DictGet(mods[i], "resources", EmptyDict) : i \in 1..Len(mods) }

\* C9: after refresh_resources_properties(state), resources maps exactly
\* the names of state.resources and of the modules' resources, a module's
\* entry overwriting a top-level one; missing keys give the empty mapping;
\* the mapping depends on the given state alone; state equals resources.
C9_InventoryFlattening ==
    pc = "resources" =>
       /\ DOMAIN rp["resources"] = ExpectedNames(tf_state)
       /\ \A n \in DOMAIN rp["resources"] :
             rp["resources"][n] = ExpectedResource(tf_state, n)
       /\ rp["state"] = rp["resources"]

\* a state whose module overwrites the top-level resource of the same name
C9_Witness ==
    /\ pc = "resources"
    /\ DOMAIN tf_state = { "resources", "modules" }
    /\ Len(tf_state["resources"]) = 2
    /\ tf_state["resources"][1]["name"] = "vpc"
    /\ Len(tf_state["modules"]) = 1
    /\ DOMAIN DictGet(tf_state["modules"][1], "resources", EmptyDict) = { "vpc" }
    /\ rp["resources"]["vpc"] = [rev |-> 3]
    /\ "subnet" \in DOMAIN rp["resources"]

(***************************************************************************)
(* The execution context of a node instance, and the paths resolved from   *)
(* it                                                                      *)
(***************************************************************************)

\* A node is [properties, relationships]: ctx.node.properties, and the
\* runtime properties of the target of each run_on_host relationship of
\* the instance.  A call works on s = [rp, fs, err]: the runtime
\* properties, the file system, and the exception raised so far.

N_terraform == N_tf                \* 'terraform'
N_dot_terraform == <<".", "t">>    \* '.terraform'
N_plugins == N_pl                  \* 'plugins'

\* get_deployment_dir(ctx.deployment.id)
DeploymentDir == AbsPath(<< <<"d">> >>)

\* ctx.instance.id
InstanceId == <<"n">>

\* the folder of get_node_instance_dir
NodeInstanceDir == Join(DeploymentDir, InstanceId)

\* the NonRecoverableError of get_storage_path and of get_plugins_dir
StoragePathError == "NonRecoverableError: storage_path is no longer supported"
PluginsDirError == "NonRecoverableError: plugins directory must be a subdirectory"

\* get_node_instance_dir(): the folder is made when it does not exist
get_node_instance_dir(s) ==
    IF Exists(s.fs, NodeInstanceDir) THEN s
    ELSE [s EXCEPT !.fs = MkdirP(s.fs, NodeInstanceDir)]

\* get_resource_config(): the runtime copy when it is a non-empty dict
get_resource_config(props, node) ==
    IF "resource_config" \in DOMAIN props /\ DOMAIN props.resource_config # {}
    THEN props.resource_config
    ELSE DictGet(node.properties, "resource_config", EmptyDict)

\* get_terraform_config()
get_terraform_config(props, node) ==
    IF "terraform_config" \in DOMAIN props /\ DOMAIN props.terraform_config # {}
    THEN props.terraform_config
    ELSE DictGet(node.properties, "terraform_config", EmptyDict)

\* is_using_existing(target=False)
is_using_existing(props, node) ==
    LET resource_config ==
            IF Len(node.relationships) > 0
            THEN DictGet(node.relationships[1], "resource_config", EmptyDict)
            ELSE get_resource_config(props, node)
    IN DictGet(resource_config, "use_existing_resource", TRUE)

\* get_executable_path(): the value returned is rp['executable_path'] of
\* the result
get_executable_path(s, node) ==
    LET stored == DictGet(s.rp, "executable_path", None)
        configured ==
            IF Truthy(stored) THEN stored
            ELSE DictGet(get_terraform_config(s.rp, node), "executable_path", None)
        s1 == IF Truthy(configured) THEN s ELSE get_node_instance_dir(s)
        executable_path ==
            IF Truthy(configured) THEN configured
            ELSE Join(NodeInstanceDir, N_terraform)
        resolved ==
            IF ~Exists(s1.fs, executable_path) /\ is_using_existing(s1.rp, node)
            THEN DictGet(DictGet(node.properties, "terraform_config", EmptyDict),
                         "executable_path", None)
            ELSE executable_path
    IN [s1 EXCEPT !.rp = DictSet(s1.rp, "executable_path", resolved)]

\* get_storage_path(): a configured storage_path is never the object that
\* os.path.join has just built, so "is not" holds whenever it is truthy
get_storage_path(s, node) ==
    LET resource_config == get_resource_config(s.rp, node)
        s1 == get_node_instance_dir(s)
        storage_path == DictGet(resource_config, "storage_path", None)
    IN IF Truthy(storage_path)
       THEN [s1 EXCEPT !.err = StoragePathError]
       ELSE [s1 EXCEPT !.rp = DictSet(s1.rp, "storage_path", NodeInstanceDir)]

\* get_plugins_dir(): [s, value]
get_plugins_dir(s, node) ==
    LET resource_config == get_resource_config(s.rp, node)
        s1 == get_storage_path(s, node)
        plugins_dir ==
            DictGet(resource_config, "plugins_dir",
                    Join(Join(NodeInstanceDir, N_dot_terraform), N_plugins))
    IN IF s1.err # NoError THEN [s |-> s1, value |-> None]
       ELSE IF ~Contains(plugins_dir, NodeInstanceDir)
       THEN [s |-> [s1 EXCEPT !.err = PluginsDirError], value |-> None]
       ELSE [s |-> s1, value |-> plugins_dir]

\* get_source_path()
get_source_path(props, node) ==
    DictGet(get_resource_config(props, node), "source_path", None)

(***************************************************************************)
(* The bundle: the bytes of the archive file, stored as text               *)
(***************************************************************************)

\* the byte of a character of a file name ("." is 46, "a" is 97)
Ord(c) ==
    LET i == CHOOSE k \in 1..Len(Names_Chars) : Names_Chars[k] = c
    IN IF i <= 12 THEN 45 + i ELSE 84 + i

\* the character of a byte
Chr(b) ==
    IF b \in 46..57 THEN Names_Chars[b - 45]
    ELSE IF b \in 97..122 THEN Names_Chars[b - 84]
    ELSE "?"

StrBytes(str) == [i \in 1..Len(str) |-> Ord(str[i])]

BytesStr(b) == [i \in 1..Len(b) |-> Chr(b[i])]

\* the record that ends the archive file ("PK"): an archive of no entry is
\* still a file of some bytes
ZipEnd == <<80, 75>>

\* The bytes of the archive file zipfile.ZipFile writes: every entry as
\* the length of its name, the name, the length of its data and the data,
\* then the end record.
RECURSIVE ZipWrite(_)
ZipWrite(archive) ==
    IF archive = << >> THEN ZipEnd
    ELSE LET e == Head(archive)
         IN <<Len(e.name)>> \o StrBytes(e.name) \o <<Len(e.data)>> \o e.data
            \o ZipWrite(Tail(archive))

\* zipfile.ZipFile(archive_path, 'r'): the entries read back from the
\* bytes, or not ok for a file that is no archive (BadZipFile)
RECURSIVE ZipRead(_)
ZipRead(b) ==
    LET bad == [ok |-> FALSE, entries |-> << >>]
    IN IF b = ZipEnd THEN [ok |-> TRUE, entries |-> << >>]
       ELSE IF Len(b) < 2 \/ Len(b) < b[1] + 2 THEN bad
       ELSE LET n == b[1]
                m == b[n + 2]
            IN IF Len(b) < n + 2 + m THEN bad
               ELSE Bind(ZipRead(Drop(b, n + 2 + m)), LAMBDA rest :
                       IF ~rest.ok THEN bad
                       ELSE [ok |-> TRUE,
                             entries |->
                                << [name |-> BytesStr(SubSeq(b, 2, n + 1)),
                                    data |-> SubSeq(b, n + 3, n + 2 + m)] >>
                                \o rest.entries])

(***************************************************************************)
(* Scoped checkout: acquire                                                *)
(***************************************************************************)

\* the most temporary files failed checkouts have left behind
MaxTemps == 1

\* the name tempfile.NamedTemporaryFile gives its i-th file
TempName(i) == <<"t", Names_Chars[i + 2]>>

\* the temporary files of root_dir
TempFiles(fsr, root_dir) ==
    { i \in 1..MaxTemps : Exists(fsr, Join(root_dir, TempName(i))) }

\* tempfile.NamedTemporaryFile(dir=root_dir, delete=False): a name no file has
NamedTemporaryFile(fsr, root_dir) ==
    Join(root_dir, TempName(CHOOSE i \in 1..(MaxTemps + 1) :
                               /\ ~Exists(fsr, Join(root_dir, TempName(i)))
                               /\ \A j \in 1..(i-1) :
                                     Exists(fsr, Join(root_dir, TempName(j)))))

\* create_backend_string(name, options), to the extent of its name
create_backend_string(name) ==
    StrBytes(<<"t", "e", "r", "r", "a", "f", "o", "r", "m">> \o name)

\* handle_backend(root_dir)
handle_backend(s, node, root_dir) ==
    LET resource_config == get_resource_config(s.rp, node)
    IN IF s.err # NoError \/ "backend" \notin DOMAIN resource_config THEN s
       ELSE LET backend == resource_config.backend
                backend_file_path ==
                    Join(root_dir, backend.name \o <<".", "t", "f">>)
            IN [s EXCEPT !.fs = WriteFile(s.fs, backend_file_path,
                                          create_backend_string(backend.name))]

\* extract_binary_tf_data(root_dir, data, source_path): an exception
\* leaves the temporary file where it is
extract_binary_tf_data(s, root_dir, data, source_path) ==
    IF s.err # NoError THEN s
    ELSE Bind(NamedTemporaryFile(s.fs, root_dir), LAMBDA f :
         Bind(text_to_file(data), LAMBDA decoded :
         Bind([s EXCEPT !.fs = WriteFile(s.fs, f, decoded.out)], LAMBDA written :
            IF decoded.err # NoError THEN [written EXCEPT !.err = decoded.err]
            ELSE Bind(ZipRead(decoded.out), LAMBDA zip_ref :
                 IF ~zip_ref.ok THEN [written EXCEPT !.err = "BadZipFile"]
                 ELSE Bind(unzip_archive(written.fs, zip_ref.entries, root_dir,
                                         source_path),
                           LAMBDA unzipped :
                      IF unzipped.err # NoError
                      THEN [written EXCEPT !.fs = unzipped.fs, !.err = unzipped.err]
                      ELSE [written EXCEPT !.fs = RemoveFile(unzipped.fs, f)])))))

\* update_terraform_source_material(new_source).  fetched: whether
\* get_shared_resource found the location; archive: the archive
\* _zip_archive writes of it.
\* an update that stores the new material and not where it came from
update_terraform_source_material_no_location(s, new_source, fetched, archive) ==
    IF s.err # NoError THEN s
    ELSE IF "location" \notin DOMAIN new_source THEN [s EXCEPT !.err = "KeyError"]
    ELSE IF ~fetched THEN [get_node_instance_dir(s) EXCEPT !.err = "FetchError"]
    ELSE [get_node_instance_dir(s) EXCEPT !.rp =
             DictSet(s.rp, "terraform_source", file_to_base64(ZipWrite(archive)))]

update_terraform_source_material(s, new_source, fetched, archive) ==
    IF s.err # NoError THEN s
    ELSE IF "location" \notin DOMAIN new_source THEN [s EXCEPT !.err = "KeyError"]
    ELSE LET s1 == get_node_instance_dir(s)
             base64_rep == file_to_base64(ZipWrite(archive))
         IN IF ~fetched THEN [s1 EXCEPT !.err = "FetchError"]
            ELSE [s1 EXCEPT !.rp =
                     DictSet(DictSet(s1.rp, "terraform_source", base64_rep),
                             "last_source_location", new_source.location)]

\* the source get_terraform_source_material fetches, an empty dict when
\* it fetches none
SourceToFetch(props, node) ==
    IF Truthy(DictGet(props, "terraform_source", None)) THEN EmptyDict
    ELSE DictGet(get_resource_config(props, node), "source", EmptyDict)

\* get_terraform_source_material(): the material is rp['terraform_source']
\* of the result
get_terraform_source_material(s, node, fetched, archive) ==
    IF s.err # NoError \/ Truthy(DictGet(s.rp, "terraform_source", None)) THEN s
    ELSE update_terraform_source_material(
            s, DictGet(get_resource_config(s.rp, node), "source", EmptyDict),
            fetched, archive)

\* _yield_terraform_source(material) up to its yield
yield_terraform_source(s, node) ==
    IF s.err # NoError THEN s
    ELSE Bind(get_storage_path(s, node), LAMBDA s1 :
         Bind(handle_backend(s1, node, NodeInstanceDir), LAMBDA s2 :
              extract_binary_tf_data(s2, NodeInstanceDir,
                                     DictGet(s.rp, "terraform_source", None),
                                     get_source_path(s2.rp, node))))

\* with get_terraform_source(): up to the body
get_terraform_source(s, node, fetched, archive) ==
    Bind(get_terraform_source_material(s, node, fetched, archive),
         LAMBDA material : yield_terraform_source(material, node))

\* with update_terraform_source(new_source): up to the body
update_terraform_source(s, node, new_source, fetched, archive) ==
    Bind(update_terraform_source_material(s, new_source, fetched, archive),
         LAMBDA material : yield_terraform_source(material, node))

(***************************************************************************)
(* Scoped checkout: release                                                *)
(***************************************************************************)

\* the file system of the manager lists a directory by name
Listing == "by name"

\* exclude_files=[get_executable_path(), get_plugins_dir()]
release_excludes(s, node) ==
    Bind(get_executable_path(s, node), LAMBDA s1 :
    Bind(get_plugins_dir(s1, node), LAMBDA p :
         [s |-> p.s, exclude_files |-> <<s1.rp.executable_path, p.value>>]))

\* the archives the release can write of the storage directory
release_archives(s, node) ==
    Bind(release_excludes(s, node), LAMBDA r :
         IF r.s.err # NoError THEN { << >> }
         ELSE zip_archive_listed(r.s.fs, NodeInstanceDir, r.exclude_files, Listing))

\* a release that stores the text as far as it got before the failure
release_store_first(s, node, archive, io) ==
    Bind(release_excludes(s, node), LAMBDA r :
    Bind(file_to_base64(ZipWrite(archive)), LAMBDA base64_rep :
    Bind(DictSet(r.s.rp, "terraform_source", base64_rep), LAMBDA stored :
         IF r.s.err # NoError THEN r.s
         ELSE IF io # "ok"
         THEN [r.s EXCEPT !.err = "OSError",
                          !.rp = DictSet(r.s.rp, "terraform_source",
                                         Take(base64_rep, Len(base64_rep) \div 2))]
         ELSE [r.s EXCEPT !.rp = DictSet(stored, "resource_config",
                                         get_resource_config(stored, node))])))

\* The finally block of _yield_terraform_source.  archive: the archive
\* _zip_archive writes; io: "ok", or the call that fails for want of disk,
\* memory or permission, "zip" (_zip_archive) or "base64" (_file_to_base64).
release(s, node, archive, io) ==
    Bind(release_excludes(s, node), LAMBDA r :
         IF r.s.err # NoError THEN r.s
         ELSE IF io # "ok" THEN [r.s EXCEPT !.err = "OSError"]
         ELSE Bind(file_to_base64(ZipWrite(archive)), LAMBDA base64_rep :
              Bind(DictSet(r.s.rp, "terraform_source", base64_rep), LAMBDA stored :
                   [r.s EXCEPT !.rp = DictSet(stored, "resource_config",
                                              get_resource_config(stored, node))])))

\* a generator without the finally: an exception of the body leaves it
\* at once
exit_terraform_source_no_finally(s, node, exc, archive, io) ==
    IF exc # NoError THEN [s EXCEPT !.err = exc]
    ELSE release(s, node, archive, io)

\* _yield_terraform_source(material) from its yield on, when the with
\* statement is left with the exception exc of the body (NoError: none).
\* err of the result is the exception that leaves the with statement.
exit_terraform_source(s, node, exc, archive, io) ==
    Bind(release(s, node, archive, io), LAMBDA r :
         IF r.err # NoError THEN r ELSE [r EXCEPT !.err = exc])

(***************************************************************************)
(* Spec: reload_template on one node instance, any number of times         *)
(***************************************************************************)

N_st == <<"s", "t">>      \* the state file the driver keeps (terraform.tfstate)
N_bk == <<"b", "k">>      \* the name of a backend

SourceDir == AbsPath(<< <<"s">> >>)      \* the template of the node's source
ReloadDir == AbsPath(<< <<"r">> >>)      \* the template of a new source
SystemExe == AbsPath(<< <<"u">>, N_tf >>)    \* a driver installed elsewhere

DefaultExe == Join(NodeInstanceDir, N_terraform)
DefaultPlugins == Join(Join(NodeInstanceDir, N_dot_terraform), N_plugins)

\* the same two paths as a blueprint may spell them
SpelledExe == NodeInstanceDir \o <<"/">> \o <<"/">> \o N_terraform
SpelledPlugins ==
    NodeInstanceDir \o <<"/">> \o <<"/">> \o N_dot_terraform \o <<"/">> \o N_plugins

\* a plugins directory outside the storage directory
ForeignPlugins == AbsPath(<< <<"o">>, N_plugins >>)

\* two more of them: in a sibling of the storage directory whose name starts
\* with the storage directory's, and in another tree whose path has the
\* storage path inside it
SiblingPlugins == Join(NodeInstanceDir \o InstanceId, N_plugins)
EmbeddingPlugins == Join(AbsPath(<< <<"o">> >>) \o NodeInstanceDir, N_plugins)

\* the file system before the first operation: the two templates and the
\* driver installed elsewhere
BaseTree ==
    WriteFile(WriteFile(WriteFile(WriteFile(EmptyFS,
        Join(SourceDir, N_mn), <<1>>),
        Join(Join(SourceDir, N_sb), N_vr), <<2>>),
        Join(ReloadDir, N_mn), <<3>>),
        SystemExe, <<5>>)

\* the same with the instance's own driver installed
InstalledTree == WriteFile(BaseTree, DefaultExe, <<5>>)

\* a node of the given resource_config and terraform_config, without
\* run_on_host relationship
Node(rc, tc) ==
    [properties |-> [resource_config |-> rc, terraform_config |-> tc],
     relationships |-> << >>]

\* the dicts ds, each with key k set to a value of vs
With(ds, k, vs) == { DictSet(d, k, v) : d \in ds, v \in vs }

\* resource_config with the source only: source_path is None, the plugins
\* directory is the default
SourceOnly == { [source |-> [location |-> SourceDir]] }

\* the instances: the node properties a blueprint may give, and the file
\* system each starts with
Instances ==
    LET whole == With(SourceOnly, "source_path", { << >> })
        default == { EmptyDict }
        spelled == { [executable_path |-> SpelledExe] }
        system == { [executable_path |-> SystemExe] }
        inst(rcs, tcs, trees) ==
            { [node |-> Node(rc, tc), fs |-> t] : rc \in rcs, tc \in tcs, t \in trees }
    IN inst(whole, default \cup spelled, { InstalledTree })
       \cup inst(With(whole, "plugins_dir", { SpelledPlugins, ForeignPlugins }),
                 default, { InstalledTree })
       \cup inst(whole, system, { BaseTree })
       \cup inst(SourceOnly \cup With(SourceOnly, "source_path", { N_sb }),
                 default, { InstalledTree })
       \cup inst(With(whole, "use_existing_resource", { FALSE }), default,
                 { BaseTree })
       \cup inst(With(whole, "backend", { [name |-> N_bk] }), default,
                 { InstalledTree })

\* the sources reload_template may be given ("not source": an empty dict)
ReloadSources == { EmptyDict, [location |-> ReloadDir] }

\* the states "terraform state pull" may print after an apply
PulledStates == { [resources |-> << [name |-> "vpc", rev |-> 1] >>] }

\* the driver commands _destroy and _apply run, in order
DestroyCommands == <<"destroy">>
ApplyCommands == <<"init", "plan", "apply", "state_pull">>

\* what a driver command writes in the working directory
DriverEffect(command, fsr) ==
    IF command = "init" THEN WriteFile(fsr, Join(DefaultPlugins, N_pv), <<9>>)
    ELSE IF command = "apply" THEN WriteFile(fsr, Join(NodeInstanceDir, N_st), <<7>>)
    ELSE IF command = "destroy" THEN WriteFile(fsr, Join(NodeInstanceDir, N_st), <<8>>)
    ELSE fsr

FailedDestroying == "NonRecoverableError: Failed destroying"
FailedApplying == "NonRecoverableError: Failed applying"
NoSourceGiven == "NonRecoverableError: New source was not provided"

NoOp == [source |-> EmptyDict, destroy_previous |-> FALSE, todo |-> << >>,
         exit |-> << >>]

\* the call state of the instance
Now == [rp |-> rp, fs |-> fs, err |-> NoError]

\* how the fetch of a source can end: TRUE when it arrives; nothing is
\* fetched of an empty source
Fetches(source) == IF "location" \in DOMAIN source THEN BOOLEAN ELSE { TRUE }

\* the archives _zip_archive can write of the template at a source
SourceArchives(fsr, source) ==
    IF "location" \in DOMAIN source
    THEN zip_archive_listed(fsr, source.location, None, Listing) ELSE { << >> }

Init ==
    /\ \E i \in Instances : np = i.node /\ fs = i.fs
    /\ rp = EmptyDict
    /\ op = NoOp
    /\ pc = "idle"
    /\ err = NoError
    /\ tf_state = EmptyDict
    /\ plan_json = EmptyDict
    /\ IdleCodec
    /\ IdleB64

\* the with statement is entered, or the operation ends with the
\* exception of the acquire
Enter(r, body, commands, o) ==
    /\ rp' = r.rp
    /\ fs' = r.fs
    /\ err' = r.err
    /\ pc' = IF r.err = NoError THEN body ELSE "idle"
    /\ op' = [o EXCEPT !.todo = IF r.err = NoError THEN commands ELSE << >>]

\* rp.pop('terraform_source'), rp.pop('last_source_location'), then
\* "with utils.update_terraform_source(source)"
EnterApply(s, o) ==
    \E popped \in { [s EXCEPT !.rp = DictPop(DictPop(s.rp, "terraform_source"),
                                              "last_source_location")] } :
       \E fetched \in BOOLEAN, archive \in SourceArchives(s.fs, o.source) :
          \E r \in { update_terraform_source(popped, np, o.source, fetched, archive) } :
             Enter(r, "apply", ApplyCommands, o)

\* reload_template(ctx, source, destroy_previous) up to the first driver
\* command
ReloadTemplate ==
    /\ pc = "idle"
    /\ Cardinality(TempFiles(fs, NodeInstanceDir)) < MaxTemps
    /\ \E source \in ReloadSources, destroy_previous \in BOOLEAN :
          LET o == [NoOp EXCEPT !.source = source,
                                !.destroy_previous = destroy_previous]
          IN IF DOMAIN source = {}
             THEN /\ err' = NoSourceGiven
                  /\ op' = o
                  /\ UNCHANGED <<rp, fs, pc>>
             ELSE IF destroy_previous
             THEN \E source_to_fetch \in { SourceToFetch(rp, np) } :
                  \E fetched \in Fetches(source_to_fetch),
                     archive \in SourceArchives(fs, source_to_fetch) :
                     \E r \in { get_terraform_source(Now, np, fetched, archive) } :
                        Enter(r, "destroy", DestroyCommands, o)
             ELSE \E s \in { Now } : EnterApply(s, o)
    /\ UNCHANGED <<arc, cin, b64Vars, plan_json, tf_state, np>>

\* the driver runs the next command of the body, and exits with 0
DriverRun ==
    /\ pc \in {"destroy", "apply"}
    /\ op.todo # << >>
    /\ fs' = DriverEffect(Head(op.todo), fs)
    /\ op' = [op EXCEPT !.todo = Tail(op.todo), !.exit = << >>]
    /\ UNCHANGED <<rp, err, pc, arc, cin, b64Vars, plan_json, tf_state, np>>

\* how the packing and encoding of the release end: "ok", or the call that
\* fails for want of disk, memory or permission
ReleaseOutcomes == {"ok", "zip"}

\* what is known of a with statement that was left
ExitRecord(exc, s, io, archive, r) ==
    [exc |-> exc, before |-> s.rp, fs |-> s.fs, io |-> io, archive |-> archive,
     after |-> r.rp, err |-> r.err]

\* The with statement of the destroy is left: the command failed (having
\* written or not) or the body returned.  Then the release, and when no
\* exception is left the rest of reload_template up to the first command
\* of the apply.
ExitDestroy ==
    /\ pc = "destroy"
    /\ \E failed \in BOOLEAN, wrote \in BOOLEAN, io \in ReleaseOutcomes :
          /\ failed = (op.todo # << >>)
          /\ wrote => failed
          /\ LET exc == IF failed THEN FailedDestroying ELSE NoError
             IN \E s \in { [Now EXCEPT !.fs = IF wrote
                                               THEN DriverEffect(Head(op.todo), fs)
                                               ELSE fs] } :
                \E archive \in release_archives(s, np) :
                   \E r \in { exit_terraform_source(s, np, exc, archive, io) } :
                      LET o == [op EXCEPT !.exit = <<ExitRecord(exc, s, io, archive, r)>>]
                      IN IF r.err # NoError
                         THEN Enter(r, "idle", << >>, o)
                         ELSE EnterApply(r, o)
    /\ UNCHANGED <<arc, cin, b64Vars, plan_json, tf_state, np>>

\* The with statement of the apply is left: a command failed, or
\* state_pull printed the state and _apply stored the inventory.  Then the
\* release, and the operation ends.
ExitApply ==
    /\ pc = "apply"
    /\ \E failed \in BOOLEAN, wrote \in BOOLEAN, io \in ReleaseOutcomes,
          state \in PulledStates :
          /\ failed = (op.todo # << >>)
          /\ wrote => failed
          /\ LET exc == IF failed THEN FailedApplying ELSE NoError
             IN \E s \in { [Now EXCEPT
                              !.fs = IF wrote THEN DriverEffect(Head(op.todo), fs)
                                     ELSE fs,
                              !.rp = IF failed THEN rp
                                     ELSE refresh_resources_properties(rp, state)] } :
                \E archive \in release_archives(s, np) :
                   \E r \in { exit_terraform_source(s, np, exc, archive, io) } :
                      /\ tf_state' = IF failed THEN tf_state ELSE state
                      /\ Enter(r, "idle", << >>,
                               [op EXCEPT !.exit = <<ExitRecord(exc, s, io, archive, r)>>])
    /\ UNCHANGED <<arc, cin, b64Vars, plan_json, np>>

Next == ReloadTemplate \/ DriverRun \/ ExitDestroy \/ ExitApply

Spec == Init /\ [][Next]_vars

(***************************************************************************)
(* Properties of the scoped checkout, read off the with statement that    *)
(* was last left.                                                         *)
(***************************************************************************)

\* a with statement was left and no driver command has run since
Left == op.exit # << >>

LastExit == op.exit[1]

\* the call state in which the release of x started
ReleaseStart(x) == [rp |-> x.before, fs |-> x.fs, err |-> NoError]

\* the release of x raised: get_plugins_dir rejected the plugins directory,
\* or the packing or the encoding failed
ReleaseRaised(x) ==
    x.io # "ok" \/ release_excludes(ReleaseStart(x), np).s.err # NoError

\* the release of x packed the storage directory as the body left it and
\* stored the text of that archive
Repacked(x) ==
    /\ x.archive \in zip_archive_listed(
                        x.fs, NodeInstanceDir,
                        release_excludes(ReleaseStart(x), np).exclude_files, Listing)
    /\ "terraform_source" \in DOMAIN x.after
    /\ x.after.terraform_source = file_to_base64(ZipWrite(x.archive))

\* the property k is in after what it was in before, set or not
Kept(x, k) ==
    /\ (k \in DOMAIN x.after) = (k \in DOMAIN x.before)
    /\ k \in DOMAIN x.before => x.after[k] = x.before[k]

\* C1 as stated: whenever the body of a scoped checkout raises, the release
\* stores the re-packed storage directory in terraform_source and the
\* exception that leaves the with statement is the body's.
C1_CommitOnFailure ==
    (Left /\ LastExit.exc # NoError) =>
        Repacked(LastExit) /\ LastExit.err = LastExit.exc

\* C1 amended: when the body raises and the release itself does not raise,
\* the re-packed storage directory is stored and the body's exception leaves
\* the with statement; when the release raises, terraform_source stays as it
\* was and the exception of the release leaves the with statement in place
\* of the body's.
C1_Amended ==
    (Left /\ LastExit.exc # NoError) =>
        IF ReleaseRaised(LastExit)
        THEN /\ Kept(LastExit, "terraform_source")
             /\ LastExit.err \in {"OSError", PluginsDirError}
             /\ LastExit.err # LastExit.exc
        ELSE Repacked(LastExit) /\ LastExit.err = LastExit.exc

\* an apply that failed after writing its state file: the state file is in
\* the archive the release stored, and "Failed applying" reaches the caller
C1_Witness ==
    /\ Left
    /\ LastExit.exc = FailedApplying
    /\ LastExit.err = FailedApplying
    /\ ~ReleaseRaised(LastExit)
    /\ \E i \in 1..Len(LastExit.archive) :
          LastExit.archive[i] = [name |-> N_st, data |-> <<7>>]
    /\ "terraform_source" \in DOMAIN LastExit.before
    /\ LastExit.after.terraform_source # LastExit.before.terraform_source
    /\ rp = LastExit.after

\* the text t is the complete encoding of an archive
CompleteArchiveText(t) ==
    LET decoded == text_to_file(t)
    IN decoded.err = NoError /\ ZipRead(decoded.out).ok

\* C2: when the packing or the encoding of a release fails, terraform_source
\* and resource_config are after the release what they were before it and
\* the failure leaves the with statement; and terraform_source never holds
\* anything but the complete text of an archive.
C2_TransactionalRelease ==
    /\ (Left /\ LastExit.io # "ok") =>
          /\ Kept(LastExit, "terraform_source")
          /\ Kept(LastExit, "resource_config")
          /\ LastExit.err # NoError
          /\ release_excludes(ReleaseStart(LastExit), np).s.err = NoError
                => LastExit.err = "OSError"
    /\ "terraform_source" \in DOMAIN rp => CompleteArchiveText(rp.terraform_source)

\* the packing failed on a storage directory the body had changed, with a
\* text stored before: the text is still that one
C2_Witness ==
    /\ Left
    /\ LastExit.io # "ok"
    /\ LastExit.err = "OSError"
    /\ "terraform_source" \in DOMAIN LastExit.before
    /\ IsFile(LastExit.fs, Join(NodeInstanceDir, N_st))
    /\ \A a \in release_archives(ReleaseStart(LastExit), np) :
          file_to_base64(ZipWrite(a)) # LastExit.before.terraform_source
    /\ rp = LastExit.after
    /\ rp.terraform_source = LastExit.before.terraform_source

\* the file an archive entry was packed from
EntryFile(e) == Norm(Join(NodeInstanceDir, e.name))

\* C4 as stated: the archive a release stores has no entry for the resolved
\* executable path (a None path is skipped) and no entry for a file under
\* the resolved plugins directory.
C4_Exclusion ==
    (Left /\ ~ReleaseRaised(LastExit)) =>
        LET executable_path == DictGet(LastExit.after, "executable_path", None)
            plugins_dir == release_excludes(ReleaseStart(LastExit), np).exclude_files[2]
        IN \A i \in 1..Len(LastExit.archive) :
              /\ Truthy(executable_path) =>
                    EntryFile(LastExit.archive[i]) # Norm(executable_path)
              /\ ~Under(EntryFile(LastExit.archive[i]), Norm(plugins_dir))

(***************************************************************************)
(* SpecInstall: the install operation, called again and again on one node *)
(* instance.  The call state carries, besides rp, fs and err, the URLs    *)
(* curl was started on during the call (downloads).                        *)
(***************************************************************************)

MaxInstalls == 3      \* the calls of install that a behaviour makes

N_tf_zip == <<"t", "f", ".", "z">>     \* 'tf.zip'
N_pw == <<"p", "w">>                   \* a second provider plugin

\* the URL of the driver's archive and the URL of a provider's
InstallationUrl == <<"u", "/">> \o N_terraform
PluginUrl(name) == <<"u", "/">> \o name

CalledProcessError == "CalledProcessError"
NoInstallationSource == "NonRecoverableError: No download URL for terraform binary"
PluginsValueError == "NonRecoverableError: The plugins value is not valid"

\* a Python value of resource_config['plugins']: a dict, or a list (its
\* elements by position, the positions written as names)
PyDict(items) == [type |-> "dict", items |-> items]
PyList(items) == [type |-> "list", items |-> items]

\* what the URLs serve: the driver packed under its name or under another
\* one, and a provider each
BinaryArchives == { << [name |-> N_terraform, data |-> <<5>>] >>,
                    << [name |-> N_ot, data |-> <<5>>] >> }
PluginArchive(name) == << [name |-> name, data |-> <<9>>] >>

\* download_file(source, destination): curl -o <file> <url>; curl exits
\* with an error at the attempt fail_at of the call
download_file(s, path, url, served, fail_at) ==
    IF s.err # NoError THEN s
    ELSE Bind([s EXCEPT !.downloads = Append(@, url)], LAMBDA s1 :
            IF Len(s1.downloads) = fail_at
            THEN [s1 EXCEPT !.err = CalledProcessError]
            ELSE [s1 EXCEPT !.fs = WriteFile(s1.fs, path, ZipWrite(served))])

\* unzip_and_set_permissions(zip_file, target_dir)
unzip_and_set_permissions(s, zip_file, target_dir) ==
    IF s.err # NoError THEN s
    ELSE Bind(ZipRead(s.fs.files[Norm(zip_file)]), LAMBDA zip_ref :
            IF ~zip_ref.ok THEN [s EXCEPT !.err = "BadZipFile"]
            ELSE ExtractAll(s, zip_ref.entries, target_dir, 1))

\* os.remove(path) after the calls before it returned
remove(s, path) ==
    IF s.err # NoError THEN s ELSE [s EXCEPT !.fs = RemoveFile(s.fs, Norm(path))]

\* install_binary(installation_dir, executable_path, installation_source)
install_binary(s, installation_dir, executable_path, installation_source, served, fail_at) ==
    IF s.err # NoError \/ ~Truthy(installation_source) THEN s
    ELSE Bind(Join(installation_dir, N_tf_zip), LAMBDA installation_zip :
         Bind(download_file(s, installation_zip, InstallationUrl, served, fail_at),
              LAMBDA s1 :
         Bind(unzip_and_set_permissions(s1, installation_zip,
                                        Dirname(executable_path)),
              LAMBDA s2 : remove(s2, installation_zip))))

\* an install that downloads the driver whatever is at the executable path
install_executable_always(s, executable_path, installation_source, served, fail_at) ==
    install_binary(s, NodeInstanceDir, executable_path, installation_source,
                   served, fail_at)

\* "if os.path.isfile(executable_path)": the installation of the executable
\* is skipped, else install_binary
install_executable(s, executable_path, installation_source, served, fail_at) ==
    IF IsFile(s.fs, executable_path) THEN s
    ELSE install_binary(s, NodeInstanceDir, executable_path, installation_source,
                        served, fail_at)

\* get_plugins()
get_plugins(props, node) ==
    DictGet(get_resource_config(props, node), "plugins", PyDict(EmptyDict))

\* get_installation_source(): [s, value]
get_installation_source(s, node) ==
    LET source == DictGet(get_resource_config(s.rp, node), "installation_source", None)
    IN IF s.err # NoError THEN [s |-> s, value |-> None]
       ELSE IF ~Truthy(source)
       THEN [s |-> [s EXCEPT !.err = NoInstallationSource], value |-> None]
       ELSE [s |-> s, value |-> source]

\* create_plugins_dir(plugins_dir)
create_plugins_dir(s, plugins_dir) ==
    IF s.err # NoError \/ ~Truthy(plugins_dir) THEN s
    ELSE [s EXCEPT !.fs = IF IsDir(s.fs, plugins_dir) THEN @
                          ELSE MkdirP(@, Norm(plugins_dir)),
                   !.rp = DictSet(@, "plugins_dir", plugins_dir)]

\* the loop of handle_plugins over plugins.items(), in the order items
RECURSIVE PluginLoop(_, _, _, _, _, _)
PluginLoop(s, items, i, plugins_dir, installation_dir, fail_at) ==
    IF i > Len(items) \/ s.err # NoError THEN s
    ELSE Bind(NamedTemporaryFile(s.fs, installation_dir), LAMBDA plugin_zip :
         Bind(Join(plugins_dir, items[i]), LAMBDA unzip_path :
         Bind(download_file([s EXCEPT !.fs = WriteFile(@, plugin_zip, << >>)],
                            plugin_zip, PluginUrl(items[i]),
                            PluginArchive(items[i]), fail_at),
              LAMBDA s1 :
         Bind(IF s1.err # NoError THEN s1
              ELSE [s1 EXCEPT !.fs = MkdirP(@, Norm(Dirname(unzip_path)))],
              LAMBDA s2 :
         Bind(remove(unzip_and_set_permissions(s2, plugin_zip, unzip_path),
                     plugin_zip),
              LAMBDA s3 :
              PluginLoop(s3, items, i + 1, plugins_dir, installation_dir,
                         fail_at))))))

\* a handle_plugins that takes any plugins value for a mapping
handle_plugins_unchecked(s, plugins, items, plugins_dir, installation_dir, fail_at) ==
    PluginLoop(create_plugins_dir(s, plugins_dir), items, 1, plugins_dir,
               installation_dir, fail_at)

\* handle_plugins(plugins, plugins_dir, installation_dir)
handle_plugins(s, plugins, items, plugins_dir, installation_dir, fail_at) ==
    Bind(create_plugins_dir(s, plugins_dir), LAMBDA s1 :
         IF s1.err # NoError THEN s1
         ELSE IF plugins.type # "dict" THEN [s1 EXCEPT !.err = PluginsValueError]
         ELSE PluginLoop(s1, items, 1, plugins_dir, installation_dir, fail_at))

\* the body of install(ctx)
install(s, node, served, items, fail_at) ==
    Bind(get_executable_path(get_node_instance_dir(s), node), LAMBDA s1 :
    Bind(get_plugins_dir(s1, node), LAMBDA plugins_dir :
    Bind(get_installation_source(plugins_dir.s, node), LAMBDA installation_source :
    Bind(install_executable(installation_source.s, s1.rp.executable_path,
                            installation_source.value, served, fail_at),
         LAMBDA s2 :
         IF s2.err # NoError THEN s2
         ELSE handle_plugins(
                 [s2 EXCEPT !.rp = DictSet(@, "executable_path",
                                           s1.rp.executable_path)],
                 get_plugins(s1.rp, node), items, plugins_dir.value,
                 NodeInstanceDir, fail_at)))))

\* @skip_if_existing: the operation runs unless an existing resource is used
skip_if_existing(s, node, served, items, fail_at) ==
    IF is_using_existing(s.rp, node) THEN s
    ELSE install(s, node, served, items, fail_at)

\* the orders in which plugins.items() can give the declared plugins
ItemOrders(plugins) ==
    IF plugins.type = "dict" THEN PermsOf(DOMAIN plugins.items) ELSE { << >> }

\* the most downloads one call of install starts
MaxDownloads == 3

\* the calls of uninstall a behaviour makes
MaxUninstalls == 2

\* an executable path configured under another name than the driver has in
\* its archive ('terraform-0.13')
N_tf_13 == <<"t", "3">>
RenamedExe == Join(NodeInstanceDir, N_tf_13)

\* the node instances install is called on
\* a terraform_config that names the three locations, as the plugin's own
\* test of install does
DirectoriesConfigured ==
    [executable_path |-> DefaultExe,
     storage_path |-> NodeInstanceDir,
     plugins_dir |-> Join(Join(NodeInstanceDir, N_dot_terraform), N_plugins)]

InstallInstances ==
    LET url == { [use_existing_resource |-> FALSE,
                  installation_source |-> InstallationUrl] }
        one == PyDict((N_pv :> PluginUrl(N_pv)))
        two == PyDict((N_pv :> PluginUrl(N_pv)) @@ (N_pw :> PluginUrl(N_pw)))
        inst(rcs, tcs, trees) ==
            { [node |-> Node(rc, tc), fs |-> t] : rc \in rcs, tc \in tcs, t \in trees }
    IN inst(url \cup With(url, "plugins", { PyDict(EmptyDict), one, two,
                                            PyList(<< >>),
                                            PyList((<<"0">> :> PluginUrl(N_pv))) }),
            { EmptyDict }, { BaseTree, InstalledTree })
       \cup inst(With(url, "plugins", { one }),
                 { [executable_path |-> SystemExe] }, { BaseTree })
       \cup inst(url, { [executable_path |-> RenamedExe] }, { BaseTree })
       \cup inst(With(url, "plugins", { one }), { DirectoriesConfigured }, { BaseTree })
       \cup inst(With(With(url, "plugins", { one }), "plugins_dir",
                      { ForeignPlugins, SiblingPlugins, EmbeddingPlugins }),
                 { EmptyDict }, { BaseTree })
       \cup inst({ [use_existing_resource |-> FALSE],
                   [installation_source |-> InstallationUrl],
                   [use_existing_resource |-> TRUE, plugins |-> one] },
                 { EmptyDict }, { BaseTree, InstalledTree })

\* no call of install made yet
\* ---------------------------------------------------------------------
\* Removal: symbolic links, remove_dir and the uninstall operation
\* ---------------------------------------------------------------------

\* the symbolic links of a tree, link path -> the path it points to
Links(fsr) == IF "links" \in DOMAIN fsr THEN fsr.links ELSE << >>

\* os.path.islink(p)
path_islink(fsr, p) == Truthy(p) /\ Norm(p) \in DOMAIN Links(fsr)

\* os.path.isdir(p), which follows a symbolic link
path_isdir(fsr, p) ==
    IF path_islink(fsr, p) THEN IsDir(fsr, Links(fsr)[Norm(p)]) ELSE IsDir(fsr, p)

\* os.symlink(src, dst): dst must not exist, src need not
symlink(s, src, dst) ==
    IF s.err # NoError THEN s
    ELSE IF IsFile(s.fs, dst) \/ IsDir(s.fs, dst) \/ path_islink(s.fs, dst)
         THEN [s EXCEPT !.err = "FileExistsError"]
    ELSE [s EXCEPT !.fs = [files |-> s.fs.files,
                           dirs |-> s.fs.dirs \cup Ancestors(Norm(dst)),
                           links |-> (Norm(dst) :> src) @@ Links(s.fs)]]

\* the tree without what lies at or below d
WithoutTree(fsr, d) ==
    [files |-> [f \in { g \in DOMAIN fsr.files : ~Under(g, d) } |-> fsr.files[f]],
     dirs |-> { x \in fsr.dirs : ~Under(x, d) },
     links |-> [l \in { g \in DOMAIN Links(fsr) : ~Under(g, d) } |-> Links(fsr)[l]]]

\* shutil.rmtree(path): refuses a symbolic link
rmtree(s, path) ==
    IF path_islink(s.fs, path) THEN [s EXCEPT !.err = "OSError"]
    ELSE [s EXCEPT !.fs = WithoutTree(s.fs, Norm(path))]

\* os.unlink(path) of a symbolic link
unlink(s, path) ==
    [s EXCEPT !.fs = [files |-> s.fs.files, dirs |-> s.fs.dirs,
                      links |-> [l \in DOMAIN Links(s.fs) \ { Norm(path) } |-> Links(s.fs)[l]]]]

\* remove_dir(folder, desc)
remove_dir(s, folder) ==
    IF s.err # NoError THEN s
    ELSE IF path_isdir(s.fs, folder) THEN rmtree(s, folder)
    ELSE IF path_islink(s.fs, folder) THEN unlink(s, folder)
    ELSE s

\* the body of uninstall
uninstall(s, node) ==
    LET terraform_config == get_terraform_config(s.rp, node)
        resource_config == get_resource_config(s.rp, node)
        exc_path == DictGet(terraform_config, "executable_path", << >>)
        system_exc == DictGet(resource_config, "use_existing_resource", FALSE)
        kept == IF IsFile(s.fs, exc_path) /\ ~system_exc
                THEN [s EXCEPT !.fs = RemoveFile(s.fs, Norm(exc_path))]
                ELSE s
        plugins_dir == DictGet(terraform_config, "plugins_dir", None)
        storage_path == DictGet(terraform_config, "storage_path", None)
        first == IF Truthy(plugins_dir) THEN remove_dir(kept, plugins_dir) ELSE kept
    IN IF Truthy(storage_path) THEN remove_dir(first, storage_path) ELSE first

\* uninstall under its decorator
skip_if_existing_uninstall(s, node) ==
    IF is_using_existing(s.rp, node) THEN s ELSE uninstall(s, node)

NoInstall == [installs |-> 0, downloads |-> << >>, before |-> EmptyDict,
              found |-> FALSE, skipped |-> FALSE, last |-> "none",
              uninstalls |-> 0, placed |-> {}, tree |-> EmptyFS]

InitInstall ==
    /\ \E i \in InstallInstances : np = i.node /\ fs = i.fs
    /\ rp = EmptyDict
    /\ op = NoInstall
    /\ pc = "idle"
    /\ err = NoError
    /\ tf_state = EmptyDict
    /\ plan_json = EmptyDict
    /\ IdleCodec
    /\ IdleB64

\* a file is at the executable path get_executable_path resolves
ExecutableFound(s, node) ==
    IsFile(s.fs, get_executable_path(get_node_instance_dir(s), node).rp.executable_path)

\* One call of the install operation, from the decorator to its return or
\* its exception.  The runtime properties are those the call left, whether
\* it returned or raised.
Install ==
    /\ op.installs < MaxInstalls
    /\ Cardinality(TempFiles(fs, NodeInstanceDir)) < MaxTemps
    /\ \E served \in BinaryArchives, fail_at \in 0..MaxDownloads,
          items \in ItemOrders(get_plugins(rp, np)) :
          \E r \in { skip_if_existing([rp |-> rp, fs |-> fs, err |-> NoError,
                                       downloads |-> << >>],
                                      np, served, items, fail_at) } :
             /\ rp' = r.rp
             /\ fs' = r.fs
             /\ err' = r.err
             /\ op' = [installs |-> op.installs + 1,
                       downloads |-> r.downloads,
                       before |-> rp,
                       found |-> ExecutableFound(Now, np),
                       skipped |-> is_using_existing(rp, np),
                       last |-> "install",
                       uninstalls |-> op.uninstalls,
                       placed |-> op.placed \cup { p \in { DefaultExe, RenamedExe } :
                                                    IsFile(r.fs, p) /\ ~IsFile(fs, p) },
                       tree |-> fs]
    /\ UNCHANGED <<pc, arc, cin, b64Vars, plan_json, tf_state, np>>

\* One call of the uninstall operation.
Uninstall ==
    /\ op.uninstalls < MaxUninstalls
    /\ \E r \in { skip_if_existing_uninstall(Now, np) } :
          /\ rp' = r.rp
          /\ fs' = r.fs
          /\ err' = r.err
          /\ op' = [op EXCEPT !.last = "uninstall",
                              !.uninstalls = @ + 1,
                              !.skipped = is_using_existing(rp, np),
                              !.tree = fs]
    /\ UNCHANGED <<pc, arc, cin, b64Vars, plan_json, tf_state, np>>

NextInstall == Install \/ Uninstall

SpecInstall == InitInstall /\ [][NextInstall]_vars

\* the URLs of the plugins the node declares
DeclaredPluginUrls ==
    LET plugins == get_plugins(rp, np)
    IN IF plugins.type = "dict"
       THEN { plugins.items[n] : n \in DOMAIN plugins.items } ELSE {}

\* a second or later call of install that found a file at the executable
\* path
InstalledAgain == op.last = "install" /\ op.installs >= 2 /\ op.found

ExecutablePathKept ==
    /\ ("executable_path" \in DOMAIN rp) = ("executable_path" \in DOMAIN op.before)
    /\ "executable_path" \in DOMAIN rp => rp.executable_path = op.before.executable_path

\* C10 as stated: a second call of install that finds a file at the
\* resolved executable path starts no download, of the driver or of a
\* plugin, and leaves executable_path as it was.
C10_IdempotentInstall ==
    InstalledAgain => op.downloads = << >> /\ ExecutablePathKept

\* C10 amended: a second call of install that finds a file at the resolved
\* executable path starts no download of the driver and leaves
\* executable_path as it was; it downloads the declared plugins again, each
\* once when it returns normally, and nothing else.
C10_Amended ==
    InstalledAgain =>
        /\ ExecutablePathKept
        /\ \A i \in 1..Len(op.downloads) :
              /\ op.downloads[i] # InstallationUrl
              /\ op.downloads[i] \in DeclaredPluginUrls
              /\ \A j \in 1..Len(op.downloads) :
                    op.downloads[j] = op.downloads[i] => j = i
        /\ (err = NoError /\ ~op.skipped) =>
              DeclaredPluginUrls = { op.downloads[i] : i \in 1..Len(op.downloads) }

\* a second install on an instance with the driver in place and two plugins
\* declared: both plugins were downloaded again, the driver was not
C10_Witness ==
    /\ op.installs = 2
    /\ op.found
    /\ ~op.skipped
    /\ err = NoError
    /\ Len(op.downloads) = 2
    /\ rp.executable_path = DefaultExe
    /\ op.before.executable_path = DefaultExe
    /\ IsFile(fs, DefaultExe)

\* the executable path of a node instance that has none stored yet:
\* terraform_config.executable_path when configured, else the default
ResolvedExecutable ==
    LET configured == DictGet(DictGet(np.properties, "terraform_config", EmptyDict),
                              "executable_path", None)
    IN IF Truthy(configured) THEN configured ELSE DefaultExe

\* the last call of install ran (use_existing_resource is false) and
\* returned normally, so an installation_source was given
InstallCompleted == op.last = "install" /\ ~op.skipped /\ err = NoError

\* C11 as stated: after install completes with use_existing_resource false
\* and an installation_source given, executable_path is the resolved
\* executable path and a file exists at that path.
C11_InstallOutcome ==
    InstallCompleted =>
        /\ "executable_path" \in DOMAIN rp
        /\ rp.executable_path = ResolvedExecutable
        /\ IsFile(fs, rp.executable_path)

(***************************************************************************)
(* Properties of reload_template, read off its steps.                     *)
(***************************************************************************)

\* the text of a bundle made of the template at the location of source
BundleOf(fsr, source, base64_rep) ==
    \E a \in SourceArchives(fsr, source) : base64_rep = file_to_base64(ZipWrite(a))

\* the step enters the body of the destroy: reload_template was called with
\* destroy_previous, and the bundle checked out is the one stored before,
\* with its provenance
DestroyEntered ==
    (pc' = "destroy" /\ pc # "destroy") =>
        /\ pc = "idle" /\ op'.destroy_previous
        /\ "terraform_source" \in DOMAIN rp =>
               /\ rp'.terraform_source = rp.terraform_source
               /\ DictGet(rp', "last_source_location", None)
                     = DictGet(rp, "last_source_location", None)

\* while the destroy runs the stored bundle and its provenance stay
DestroyRuns ==
    (pc = "destroy" /\ pc' = "destroy") => rp' = rp

\* the step leaves the with statement of the destroy with an exception (of
\* the destroy or of the release): the bundle is not cleared and nothing
\* was fetched of the new source
DestroyFailed ==
    (pc = "destroy" /\ pc' = "idle" /\ op'.exit[1].err # NoError) =>
        /\ err' = op'.exit[1].err
        /\ "terraform_source" \in DOMAIN rp'
        /\ DictGet(rp', "last_source_location", None)
              = DictGet(rp, "last_source_location", None)
        /\ fs'.files = [f \in DOMAIN fs'.files |->
                          IF f \in DOMAIN fs.files /\ Basename(f) # N_st
                          THEN fs.files[f] ELSE fs'.files[f]]
        /\ DOMAIN fs'.files \subseteq DOMAIN fs.files \cup {Join(NodeInstanceDir, N_st)}

\* the step enters the body of the apply: with destroy_previous only from
\* a destroy that ran and whose checkout was released, and the bundle
\* checked out is made of the new source and of nothing else
ApplyEntered ==
    (pc' = "apply" /\ pc # "apply") =>
        /\ op'.destroy_previous =>
               /\ pc = "destroy" /\ op.todo = << >>
               /\ op'.exit # << >>
               /\ op'.exit[1].exc = NoError /\ op'.exit[1].err = NoError
               /\ "terraform_source" \in DOMAIN op'.exit[1].after
        /\ ~op'.destroy_previous => pc = "idle"
        /\ BundleOf(fs, op'.source, rp'.terraform_source)
        /\ DictGet(rp', "last_source_location", None) = op'.source.location

\* the step ends reload_template normally: the apply ran to its end, and
\* last_source_location is the location of the new source
ReloadReturned ==
    (pc # "idle" /\ pc' = "idle" /\ err' = NoError) =>
        /\ pc = "apply" /\ op.todo = << >>
        /\ DictGet(rp', "last_source_location", None) = op.source.location

C19_AlwaysRestorable ==
    [][("terraform_source" \in DOMAIN rp /\ pc' = "idle")
          => "terraform_source" \in DOMAIN rp']_vars

\* the plugins value of the node is not a dict
PluginsNotAMapping == get_plugins(rp, np).type # "dict"

Uninstalled == op.last = "uninstall" /\ op.installs >= 1

\* C15 as stated: uninstall removes the driver that install placed at the
\* resolved executable path when the driver is not externally provided, and
\* removes nothing of an externally provided one; it also leaves neither the
\* storage directory nor the plugins directory of the instance behind.
C15_UninstallRemoves ==
    Uninstalled =>
        /\ (~op.skipped /\ DictGet(rp, "executable_path", None) \in op.placed) =>
               ~IsFile(fs, rp.executable_path)
        /\ op.skipped => fs = op.tree
        /\ (~op.skipped /\ err = NoError) =>
               /\ ~IsDir(fs, DictGet(rp, "storage_path", None))
               /\ ~IsDir(fs, DictGet(rp, "plugins_dir", None))

\* ---------------------------------------------------------------------
\* Directories shared between instances: set_directory_config, remove_dir
\* ---------------------------------------------------------------------

\* ctx.source.instance.id; the target instance is InstanceId
SourceId == <<"m">>

\* the folder of get_node_instance_dir(source=True)
SourceInstanceDir == Join(DeploymentDir, SourceId)

\* str.replace(old, new)
RECURSIVE Replace(_, _, _)
Replace(s, old, new) ==
    IF Len(old) = 0 \/ Len(s) < Len(old) THEN s
    ELSE IF StartsWith(s, old)
         THEN new \o Replace(SubSeq(s, Len(old) + 1, Len(s)), old, new)
    ELSE << Head(s) >> \o Replace(Tail(s), old, new)

\* is_using_existing(target=True)
is_using_existing_target(props, node) ==
    DictGet(get_resource_config(props, node), "use_existing_resource", TRUE)

\* the three assignments that end set_directory_config
write_source_properties(s, exc_path, plugins_dir, storage_path) ==
    [s EXCEPT !.source = DictSet(DictSet(DictSet(s.source,
                             "executable_path", exc_path),
                             "plugins_dir", plugins_dir),
                             "storage_path", storage_path)]

\* the source's '.terraform': a directory of its own beside an external
\* driver, a link to the target's otherwise
share_terraform_dir(s, node, deployment_terraform_dir, resource_terraform_dir) ==
    IF is_using_existing_target(s.rp, node)
    THEN [s EXCEPT !.fs = MkdirP(s.fs, resource_terraform_dir)]
    ELSE symlink(s, deployment_terraform_dir, resource_terraform_dir)

\* a set_directory_config that writes the source's properties before it
\* makes the link
set_directory_config_write_first(s, node) ==
    LET s1 == get_executable_path(s, node)
        pd == get_plugins_dir(s1, node)
        s2 == IF pd.s.err # NoError THEN pd.s ELSE get_storage_path(pd.s, node)
        s3 == IF Exists(s2.fs, SourceInstanceDir) THEN s2
              ELSE [s2 EXCEPT !.fs = MkdirP(s2.fs, SourceInstanceDir)]
        written == write_source_properties(s3, s1.rp.executable_path,
                       Replace(pd.value, InstanceId, SourceId),
                       Replace(s2.rp.storage_path, InstanceId, SourceId))
    IN IF s2.err # NoError THEN s2
       ELSE share_terraform_dir(written, node,
                                Join(s2.rp.storage_path, N_dot_terraform),
                                Join(SourceInstanceDir, N_dot_terraform))

\* set_directory_config(ctx): s.rp are the runtime properties of the target
\* instance, s.source those of the source instance
set_directory_config(s, node) ==
    LET s1 == get_executable_path(s, node)
        pd == get_plugins_dir(s1, node)
        s2 == IF pd.s.err # NoError THEN pd.s ELSE get_storage_path(pd.s, node)
        s3 == IF Exists(s2.fs, SourceInstanceDir) THEN s2
              ELSE [s2 EXCEPT !.fs = MkdirP(s2.fs, SourceInstanceDir)]
        linked == share_terraform_dir(s3, node,
                                      Join(s2.rp.storage_path, N_dot_terraform),
                                      Join(SourceInstanceDir, N_dot_terraform))
    IN IF s2.err # NoError THEN s2
       ELSE IF linked.err # NoError THEN linked
       ELSE write_source_properties(linked, s1.rp.executable_path,
                Replace(pd.value, InstanceId, SourceId),
                Replace(s2.rp.storage_path, InstanceId, SourceId))

\* the calls a behaviour makes on the shared directories
MaxDirCalls == 3

\* paths outside the deployment: a link to a directory, a link to a file,
\* a link to nothing, and a path nothing is at
LinkToDir == AbsPath(<< <<"l">>, <<"d">> >>)
LinkToFile == AbsPath(<< <<"l">>, <<"f">> >>)
LinkToNothing == AbsPath(<< <<"l">>, <<"x">> >>)
AbsentPath == AbsPath(<< <<"z">>, N_zz >>)

\* the target's directories after an install with one plugin, and the
\* three links
LinkedTree ==
    LET tree == WriteFile(InstalledTree, Join(DefaultPlugins, N_pv), <<6>>)
    IN [files |-> tree.files,
        dirs |-> tree.dirs \cup Ancestors(LinkToDir),
        links |-> (LinkToDir :> Join(NodeInstanceDir, N_dot_terraform))
                  @@ (LinkToFile :> DefaultExe)
                  @@ (LinkToNothing :> AbsentPath)]

\* the source instance has a '.terraform' directory of its own already
SourceTree == MkdirP(InstalledTree, Join(SourceInstanceDir, N_dot_terraform))

\* the folders remove_dir is called on
Folders ==
    { LinkToDir, LinkToFile, LinkToNothing, AbsentPath,
      Join(SourceInstanceDir, N_dot_terraform), SourceInstanceDir,
      Join(NodeInstanceDir, N_dot_terraform), DefaultPlugins }

\* the target nodes: the driver installed by the plugin, provided
\* externally, and with a plugins directory or a storage path configured
TargetNodes ==
    { Node(rc, tc) :
        rc \in { [use_existing_resource |-> FALSE],
                 [use_existing_resource |-> TRUE],
                 EmptyDict,
                 [use_existing_resource |-> FALSE,
                  plugins_dir |-> Join(NodeInstanceDir, N_plugins)],
                 [use_existing_resource |-> FALSE, plugins_dir |-> ForeignPlugins],
                 [use_existing_resource |-> FALSE, storage_path |-> NodeInstanceDir] },
        tc \in { EmptyDict, [executable_path |-> SystemExe] } }

\* the runtime properties of the target: none yet, or those install left
TargetProperties ==
    { EmptyDict, [executable_path |-> DefaultExe, storage_path |-> NodeInstanceDir] }

NoDirCall == [calls |-> 0, last |-> "none", folder |-> None, tree |-> EmptyFS,
              before |-> EmptyDict, target_before |-> EmptyDict,
              target |-> EmptyDict]

InitDirs ==
    /\ np \in TargetNodes
    /\ fs \in { BaseTree, InstalledTree, LinkedTree, SourceTree }
    /\ rp = EmptyDict
    /\ \E target \in TargetProperties : op = [NoDirCall EXCEPT !.target = target]
    /\ pc = "idle"
    /\ err = NoError
    /\ tf_state = EmptyDict
    /\ plan_json = EmptyDict
    /\ IdleCodec
    /\ IdleB64

\* One run of the set_directory_config relationship operation.
SetDirectoryConfig ==
    /\ op.calls < MaxDirCalls
    /\ \E r \in { set_directory_config([rp |-> op.target, fs |-> fs, err |-> NoError,
                                        source |-> rp], np) } :
          /\ rp' = r.source
          /\ fs' = r.fs
          /\ err' = r.err
          /\ op' = [calls |-> op.calls + 1, last |-> "set_directory_config",
                    folder |-> None, tree |-> fs, before |-> rp,
                    target_before |-> op.target, target |-> r.rp]
    /\ UNCHANGED <<pc, arc, cin, b64Vars, plan_json, tf_state, np>>

\* One call of remove_dir.
RemoveDir ==
    /\ op.calls < MaxDirCalls
    /\ \E folder \in Folders :
          \E r \in { remove_dir([rp |-> rp, fs |-> fs, err |-> NoError], folder) } :
             /\ fs' = r.fs
             /\ err' = r.err
             /\ op' = [op EXCEPT !.calls = @ + 1, !.last = "remove_dir",
                                 !.folder = folder, !.tree = fs]
    /\ UNCHANGED <<pc, arc, cin, b64Vars, plan_json, tf_state, np, rp>>

NextDirs == SetDirectoryConfig \/ RemoveDir

SpecDirs == InitDirs /\ [][NextDirs]_vars

\* the last call was remove_dir, on this kind of path
RemovedALink == op.last = "remove_dir" /\ path_islink(op.tree, op.folder)
RemovedADirectory ==
    op.last = "remove_dir" /\ IsDir(op.tree, op.folder) /\ ~path_islink(op.tree, op.folder)
RemovedNothing ==
    op.last = "remove_dir" /\ ~Exists(op.tree, op.folder) /\ ~path_islink(op.tree, op.folder)

\* C16 as stated: remove_dir on a symbolic link, whatever it points to,
\* takes the link away, raises nothing and leaves every file and directory
\* as it was; on a directory it removes the tree; on an absent path it
\* changes nothing.
C16_RemoveDir ==
    /\ RemovedALink =>
          /\ err = NoError
          /\ ~path_islink(fs, op.folder)
          /\ fs.files = op.tree.files
          /\ fs.dirs = op.tree.dirs
    /\ RemovedADirectory =>
          /\ err = NoError
          /\ ~IsDir(fs, op.folder)
          /\ \A f \in DOMAIN fs.files : ~Under(f, op.folder)
    /\ RemovedNothing => err = NoError /\ fs = op.tree

\* the last call was set_directory_config
Configured == op.last = "set_directory_config"

\* a path of the target instance, seen from the source instance: the same
\* path below the source's folder
SeenFromSource(path) ==
    SourceInstanceDir \o SubSeq(path, Len(NodeInstanceDir) + 1, Len(path))

\* the plugins directory of the target: configured, or the default
TargetPluginsDir ==
    DictGet(get_resource_config(op.target, np), "plugins_dir", DefaultPlugins)

\* C17: a set_directory_config that returns leaves the source with the
\* target's executable_path and with the target's plugins directory and
\* storage path under the source instance's id; one that raises, as when
\* the link is already there, leaves the source's properties as they were.
C17_DirectoryConfig ==
    Configured =>
        /\ err = NoError =>
              /\ rp.executable_path = op.target.executable_path
              /\ rp.plugins_dir = SeenFromSource(TargetPluginsDir)
              /\ rp.storage_path = SourceInstanceDir
        /\ err # NoError => rp = op.before

\* a second run on the same pair of instances found the link of the first
C17_Witness ==
    /\ Configured
    /\ err = "FileExistsError"
    /\ rp = [executable_path |-> DefaultExe,
             plugins_dir |-> Join(Join(SourceInstanceDir, N_dot_terraform), N_plugins),
             storage_path |-> SourceInstanceDir]
    /\ path_islink(fs, Join(SourceInstanceDir, N_dot_terraform))

\* ---------------------------------------------------------------------
\* run_subprocess: the subprocess, its two pipes and the consumer threads
\* ---------------------------------------------------------------------

\* the lines a pipe holds before a write to it blocks
PipeCap == 1

\* the most writes a subprocess makes before it exits
MaxWrites == 3

Streams == { "stdout", "stderr" }

\* the UTF-8 decoding of the bytes that are characters by themselves; 255
\* starts no character
Utf8 == (97 :> "a") @@ (98 :> "b") @@ (10 :> "\n")

\* the lines a subprocess writes, as bytes, newline included
OutLines == { <<97, 10>>, <<98, 10>>, <<255, 10>> }

\* bytes.decode('utf-8') raises UnicodeDecodeError on these
Undecodable(bytes) == \E i \in 1..Len(bytes) : bytes[i] \notin DOMAIN Utf8

\* bytes.decode('utf-8')
decode(bytes) == [i \in 1..Len(bytes) |-> Utf8[bytes[i]]]

\* str.rstrip('\n')
RECURSIVE rstrip(_)
rstrip(line) ==
    IF line # << >> /\ line[Len(line)] = "\n"
    THEN rstrip(SubSeq(line, 1, Len(line) - 1))
    ELSE line

\* what a subprocess does: its writes in order, then its exit code
Programs ==
    { [writes |-> w, return_code |-> c] :
        w \in SeqsUpTo([stream : Streams, line : OutLines], MaxWrites),
        c \in { 0, 1 } }

\* LoggingOutputConsumer.handle_line
logging_handle_line(o, prefix, line) ==
    [o EXCEPT !.log = Append(@, prefix \o rstrip(decode(line)))]

\* CapturingOutputConsumer.handle_line
capturing_handle_line(o, line) == [o EXCEPT !.buffer = @ \o decode(line)]

\* handle_line of the consumer run_subprocess makes for a stream
handle_line(o, stream, line) ==
    IF stream = "stdout" /\ o.return_output THEN capturing_handle_line(o, line)
    ELSE IF stream = "stdout" THEN logging_handle_line(o, <<"<out> ">>, line)
    ELSE logging_handle_line(o, <<"<err> ">>, line)

NotStarted ==
    [parent |-> "popen", child |-> "none", stdout |-> "none", stderr |-> "none"]

InitPump ==
    /\ pc = NotStarted
    /\ \E program \in Programs, return_output \in BOOLEAN :
          op = [program |-> program, return_output |-> return_output,
                script |-> program.writes,
                stdout |-> << >>, stderr |-> << >>, open |-> {},
                buffer |-> << >>, log |-> << >>, output |-> None]
    /\ err = NoError
    /\ fs = EmptyFS
    /\ rp = EmptyDict
    /\ np = EmptyDict
    /\ tf_state = EmptyDict
    /\ plan_json = EmptyDict
    /\ IdleCodec
    /\ IdleB64

pumpIdle == <<fs, cin, arc, b64Vars, rp, plan_json, tf_state, np>>

\* subprocess.Popen(..., stdout=PIPE, stderr=PIPE)
Popen ==
    /\ pc.parent = "popen"
    /\ pc' = [pc EXCEPT !.parent = "stdout_consumer", !.child = "running"]
    /\ op' = [op EXCEPT !.open = Streams]
    /\ UNCHANGED <<err, pumpIdle>>

\* the constructor of the stdout consumer starts its thread
StartStdoutConsumer ==
    /\ pc.parent = "stdout_consumer"
    /\ pc' = [pc EXCEPT !.parent = "stderr_consumer", !.stdout = "running"]
    /\ UNCHANGED <<op, err, pumpIdle>>

\* the constructor of the stderr consumer starts its thread
StartStderrConsumer ==
    /\ pc.parent = "stderr_consumer"
    /\ pc' = [pc EXCEPT !.parent = "wait", !.stderr = "running"]
    /\ UNCHANGED <<op, err, pumpIdle>>

\* the subprocess writes its next line; the write blocks while the pipe
\* is full
ChildWrite ==
    /\ pc.child = "running"
    /\ op.script # << >>
    /\ Len(op[Head(op.script).stream]) < PipeCap
    /\ op' = [op EXCEPT ![Head(op.script).stream] = Append(@, Head(op.script).line),
                        !.script = Tail(@)]
    /\ UNCHANGED <<pc, err, pumpIdle>>

\* the subprocess exits; its ends of the pipes close
ChildExit ==
    /\ pc.child = "running"
    /\ op.script = << >>
    /\ pc' = [pc EXCEPT !.child = "exited"]
    /\ UNCHANGED <<op, err, pumpIdle>>

\* OutputConsumer.consume_output, one turn of its loop: an exception of
\* handle_line ends the thread where it is
ConsumeLine(stream) ==
    /\ pc[stream] = "running"
    /\ op[stream] # << >>
    /\ IF Undecodable(Head(op[stream]))
       THEN /\ pc' = [pc EXCEPT ![stream] = "died"]
            /\ op' = [op EXCEPT ![stream] = Tail(@)]
       ELSE /\ op' = [handle_line(op, stream, Head(op[stream])) EXCEPT ![stream] = Tail(@)]
            /\ UNCHANGED pc
    /\ UNCHANGED <<err, pumpIdle>>

\* OutputConsumer.consume_output at the end of the stream: self.out.close()
ConsumeEnd(stream) ==
    /\ pc[stream] = "running"
    /\ op[stream] = << >>
    /\ pc.child = "exited"
    /\ pc' = [pc EXCEPT ![stream] = "finished"]
    /\ op' = [op EXCEPT !.open = @ \ { stream }]
    /\ UNCHANGED <<err, pumpIdle>>

\* process.wait()
Wait ==
    /\ pc.parent = "wait"
    /\ pc.child = "exited"
    /\ pc' = [pc EXCEPT !.parent = "join_stdout"]
    /\ UNCHANGED <<op, err, pumpIdle>>

\* stdout_consumer.join(): the thread has ended, either way
JoinStdout ==
    /\ pc.parent = "join_stdout"
    /\ pc.stdout \in { "finished", "died" }
    /\ pc' = [pc EXCEPT !.parent = "join_stderr"]
    /\ UNCHANGED <<op, err, pumpIdle>>

\* stderr_consumer.join(), then the exit code is looked at and the output
\* returned
JoinStderr ==
    /\ pc.parent = "join_stderr"
    /\ pc.stderr \in { "finished", "died" }
    /\ IF op.program.return_code # 0
       THEN /\ pc' = [pc EXCEPT !.parent = "raised"]
            /\ err' = CalledProcessError
            /\ UNCHANGED op
       ELSE /\ pc' = [pc EXCEPT !.parent = "returned"]
            /\ op' = [op EXCEPT !.output = IF op.return_output THEN op.buffer ELSE None]
            /\ UNCHANGED err
    /\ UNCHANGED pumpIdle

ParentStep ==
    Popen \/ StartStdoutConsumer \/ StartStderrConsumer \/ Wait \/ JoinStdout \/ JoinStderr

ChildStep == ChildWrite \/ ChildExit

ConsumerStep(stream) == ConsumeLine(stream) \/ ConsumeEnd(stream)

NextPump == ParentStep \/ ChildStep \/ \E stream \in Streams : ConsumerStep(stream)

SpecPump == InitPump /\ [][NextPump]_vars

\* the same with every process and thread scheduled as long as it can run
SpecPumpFair ==
    /\ SpecPump
    /\ WF_vars(ParentStep)
    /\ WF_vars(ChildStep)
    /\ \A stream \in Streams : WF_vars(ConsumerStep(stream))

\* run_subprocess has returned or raised
Ended == pc.parent \in { "returned", "raised" }

\* every byte the program writes to a stream, in order
RECURSIVE Written(_, _)
Written(writes, stream) ==
    IF writes = << >> THEN << >>
    ELSE (IF Head(writes).stream = stream THEN Head(writes).line ELSE << >>)
         \o Written(Tail(writes), stream)

\* C13 as stated: run_subprocess returns or raises only after the
\* subprocess has exited and both consumer threads have run to their end
\* and closed their streams; the output it returns, when asked for, is all
\* the subprocess wrote to stdout, in order, and nothing else.
C13_JoinBeforeReturn ==
    Ended =>
        /\ pc.child = "exited"
        /\ pc.stdout = "finished" /\ pc.stderr = "finished"
        /\ op.open = {}
        /\ (pc.parent = "returned" /\ op.return_output) =>
              /\ ~Undecodable(Written(op.program.writes, "stdout"))
              /\ op.output = decode(Written(op.program.writes, "stdout"))

\* C20 as stated: whatever the subprocess writes before it exits,
\* run_subprocess eventually returns or raises.
C20_PumpEnds == <>Ended

\* ---------------------------------------------------------------------
\* run_subprocess: the environment handed over and the one logged
\* ---------------------------------------------------------------------

MASKED_ENV_VARS == { "AWS_ACCESS_KEY_ID", "AWS_SECRET_ACCESS_KEY" }

Masked == "****"

\* dict.update(other)
DictUpdate(d, other) == other @@ d

\* the loop over printed_env: the value of every masked key is replaced
mask(env) == [k \in DOMAIN env |-> IF k \in MASKED_ENV_VARS THEN Masked ELSE env[k]]

\* args_to_pass as run_subprocess builds it from a copy of additional_args
pass_args(copied, environ, additional_env) ==
    IF additional_env # EmptyDict
    THEN DictSet(copied, "env",
                 DictUpdate(DictUpdate(DictGet(copied, "env", EmptyDict), environ),
                            additional_env))
    ELSE copied

\* printed_args: the copy of args_to_pass that is logged
print_args(args_to_pass) ==
    IF "env" \in DOMAIN args_to_pass
    THEN DictSet(args_to_pass, "env", mask(args_to_pass.env))
    ELSE args_to_pass

\* run_subprocess working on additional_args and on args_to_pass
\* themselves, with neither copy.deepcopy: the dicts the caller and Popen
\* hold are the ones written to
run_subprocess_args_shared(environ, additional_env, additional_args) ==
    LET args_to_pass == pass_args(additional_args, environ, additional_env)
        printed_args == print_args(args_to_pass)
    IN [environ |-> environ, additional_args |-> printed_args,
        args_to_pass |-> printed_args, printed_args |-> printed_args]

\* run_subprocess up to the Popen call: what the caller's additional_args
\* and os.environ hold afterwards, the keyword arguments Popen gets and
\* those that are logged.  None and {} are the same to it, for
\* additional_env and for additional_args: both are the empty dict here.
run_subprocess_args(environ, additional_env, additional_args) ==
    LET args_to_pass == pass_args(additional_args, environ, additional_env)
    IN [environ |-> environ, additional_args |-> additional_args,
        args_to_pass |-> args_to_pass, printed_args |-> print_args(args_to_pass)]

\* the calls a behaviour makes with the same additional_args
MaxEnvCalls == 2

\* os.environ
Environs ==
    { ("PATH" :> "p"),
      ("PATH" :> "p") @@ ("TF_LOG" :> "t"),
      ("PATH" :> "p") @@ ("AWS_ACCESS_KEY_ID" :> "i"),
      ("PATH" :> "p") @@ ("AWS_ACCESS_KEY_ID" :> "i") @@ ("AWS_SECRET_ACCESS_KEY" :> "k") }

\* additional_env
ExtraEnvs ==
    { EmptyDict,
      ("TF_LOG" :> "e"),
      ("AWS_ACCESS_KEY_ID" :> "x") @@ ("AWS_SECRET_ACCESS_KEY" :> "s"),
      ("PATH" :> "q") @@ ("AWS_SECRET_ACCESS_KEY" :> "s") }

\* additional_args
ExtraArgs ==
    { EmptyDict,
      [shell |-> TRUE],
      [env |-> ("HOME" :> "h")],
      [env |-> ("PATH" :> "r") @@ ("AWS_SECRET_ACCESS_KEY" :> "c"), shell |-> TRUE] }

InitEnv ==
    /\ \E environ \in Environs, additional_args \in ExtraArgs :
          op = [environ |-> environ, additional_args |-> additional_args,
                calls |-> 0, additional_env |-> EmptyDict,
                args_to_pass |-> EmptyDict, printed_args |-> EmptyDict,
                before |-> [environ |-> environ, additional_args |-> additional_args]]
    /\ pc = "idle"
    /\ err = NoError
    /\ fs = EmptyFS
    /\ rp = EmptyDict
    /\ np = EmptyDict
    /\ tf_state = EmptyDict
    /\ plan_json = EmptyDict
    /\ IdleCodec
    /\ IdleB64

\* One call of run_subprocess, as far as the Popen call.
RunSubprocess ==
    /\ op.calls < MaxEnvCalls
    /\ \E additional_env \in ExtraEnvs :
          \E r \in { run_subprocess_args(op.environ, additional_env, op.additional_args) } :
             op' = [environ |-> r.environ, additional_args |-> r.additional_args,
                    calls |-> op.calls + 1, additional_env |-> additional_env,
                    args_to_pass |-> r.args_to_pass, printed_args |-> r.printed_args,
                    before |-> [environ |-> op.environ,
                                additional_args |-> op.additional_args]]
    /\ UNCHANGED <<pc, err, fs, cin, arc, b64Vars, rp, plan_json, tf_state, np>>

NextEnv == RunSubprocess

SpecEnv == InitEnv /\ [][NextEnv]_vars

\* run_subprocess was called with extra environment variables
CalledWithEnv == op.calls >= 1 /\ op.additional_env # EmptyDict

\* every masked key of the logged environment shows the mask
LoggedMasked ==
    \A k \in DOMAIN op.printed_args.env \cap MASKED_ENV_VARS :
        op.printed_args.env[k] = Masked

\* the call left os.environ and the caller's additional_args as they were
CallerUntouched ==
    op.environ = op.before.environ /\ op.additional_args = op.before.additional_args

\* C14 as stated: in a call with extra environment variables the logged
\* environment shows every masked key masked, the subprocess gets the
\* ambient environment overlaid with the extra variables, unmasked, and
\* neither os.environ nor the caller's additional_args changes.
C14_Redaction ==
    CalledWithEnv =>
        /\ LoggedMasked
        /\ op.args_to_pass.env =
              [k \in DOMAIN op.environ \cup DOMAIN op.additional_env |->
                  IF k \in DOMAIN op.additional_env THEN op.additional_env[k]
                  ELSE op.environ[k]]
        /\ CallerUntouched

\* the env entry of the caller's additional_args, if there is one
CallerEnv == DictGet(op.before.additional_args, "env", EmptyDict)

\* C14 amended: the subprocess gets the env of the caller's additional_args,
\* if it has one, overlaid with the ambient environment overlaid with the
\* extra variables, all unmasked; the rest as stated.
C14_Amended ==
    CalledWithEnv =>
        /\ LoggedMasked
        /\ op.args_to_pass.env =
              [k \in DOMAIN CallerEnv \cup DOMAIN op.environ \cup DOMAIN op.additional_env |->
                  IF k \in DOMAIN op.additional_env THEN op.additional_env[k]
                  ELSE IF k \in DOMAIN op.environ THEN op.environ[k]
                  ELSE CallerEnv[k]]
        /\ CallerUntouched

\* a secret passed in additional_env reached the subprocess and not the log
C14_Witness ==
    /\ CalledWithEnv
    /\ DictGet(op.additional_env, "AWS_SECRET_ACCESS_KEY", "") = "s"
    /\ op.args_to_pass.env["AWS_SECRET_ACCESS_KEY"] = "s"
    /\ op.printed_args.env["AWS_SECRET_ACCESS_KEY"] = Masked
    /\ op.args_to_pass.env["PATH"] = "p"
    /\ "shell" \in DOMAIN op.args_to_pass

\* ---------------------------------------------------------------------
\* What set_directory_config leaves of the target instance
\* ---------------------------------------------------------------------

\* C23 as stated: a run of set_directory_config writes no runtime property
\* of the target instance; of the source instance it writes
\* executable_path, plugins_dir and storage_path and nothing else.
C23_TargetReadOnly ==
    Configured =>
        /\ op.target = op.target_before
        /\ \A k \in (DOMAIN rp \cup DOMAIN op.before)
                    \ { "executable_path", "plugins_dir", "storage_path" } :
              /\ k \in DOMAIN rp /\ k \in DOMAIN op.before
              /\ rp[k] = op.before[k]

\* ---------------------------------------------------------------------
\* The drift flag and the drift report, over sequences of projections
\* ---------------------------------------------------------------------

\* C25: after one or more drift projections on an instance, whatever the
\* plans, is_drifted is True exactly when drifts has an entry.
C25_FlagMatchesReport ==
    pc = "drifts" =>
        /\ rp["is_drifted"] \in BOOLEAN
        /\ rp["is_drifted"] <=> (DOMAIN rp["drifts"] # {})

\* the last plan of the sequence changed nothing: a no-op and a read, and
\* neither the flag nor the report shows a drift
C25_Witness ==
    /\ pc = "drifts"
    /\ DictGet(plan_json, "resource_changes", << >>) =
          << [name |-> "vpc", change |-> [actions |-> <<"no-op">>, after |-> 1]],
             [name |-> "subnet", change |-> [actions |-> <<"read">>, after |-> 1]] >>
    /\ rp["is_drifted"] = FALSE
    /\ rp["drifts"] = EmptyDict

\* ---------------------------------------------------------------------
\* The plugins directory install works with
\* ---------------------------------------------------------------------

\* resource_config.plugins_dir of the node, or the default
ConfiguredPluginsDir ==
    DictGet(DictGet(np.properties, "resource_config", EmptyDict),
            "plugins_dir", DefaultPlugins)

\* the path is the storage path of the instance or lies below it
BeneathStorage(path) == Under(Norm(path), NodeInstanceDir)

\* C24 as stated: the plugins directory get_plugins_dir hands to install,
\* which install stores as plugins_dir, is the storage path or lies below
\* it; with a plugins_dir configured anywhere else install ends with the
\* non-recoverable error of get_plugins_dir.
C24_PluginsDirBeneath ==
    (op.last = "install" /\ ~op.skipped) =>
        /\ "plugins_dir" \in DOMAIN rp => BeneathStorage(rp.plugins_dir)
        /\ ~BeneathStorage(ConfiguredPluginsDir) => err = PluginsDirError

\* ---------------------------------------------------------------------
\* The executable path get_executable_path resolves for the target
\* ---------------------------------------------------------------------

\* the first available of the instance's executable_path property, the
\* executable_path of the terraform config, and the default
FirstAvailable(props, node) ==
    LET stored == DictGet(props, "executable_path", None)
        configured == DictGet(get_terraform_config(props, node), "executable_path", None)
    IN IF Truthy(stored) THEN stored
       ELSE IF Truthy(configured) THEN configured
       ELSE Join(NodeInstanceDir, N_terraform)

\* C22 as stated: the executable path resolved for an instance, which the
\* call stores as the instance's executable_path, is the first available
\* of the three, is never absent, and is the stored one again when a value
\* was stored before.
C22_ExecutablePath ==
    Configured =>
        /\ "executable_path" \in DOMAIN op.target
        /\ Truthy(op.target.executable_path)
        /\ op.target.executable_path = FirstAvailable(op.target_before, np)
        /\ Truthy(DictGet(op.target_before, "executable_path", None)) =>
              op.target.executable_path = op.target_before.executable_path

\* ---------------------------------------------------------------------
\* _apply: the four driver commands, the error it raises, the inventory
\* ---------------------------------------------------------------------

\* the calls of _apply a behaviour makes on the instance
MaxApplies == 2

\* how a command of the driver wrapper ends: it returns, the driver exits
\* with a non-zero code (run_subprocess raises CalledProcessError with the
\* code and the command), the driver cannot be started, or the wrapper
\* itself gives up
Outcomes(command) ==
    { [type |-> "ok", returncode |-> 0, cmd |-> command],
      [type |-> "CalledProcessError", returncode |-> 1, cmd |-> command],
      [type |-> "CalledProcessError", returncode |-> 2, cmd |-> command],
      [type |-> "OSError", returncode |-> 0, cmd |-> command],
      [type |-> "NonRecoverableError", returncode |-> 0, cmd |-> command] }

\* the states 'terraform state pull' prints
PulledInventories ==
    { [resources |-> << >>],
      [resources |-> << [name |-> "vpc", rev |-> 1] >>],
      [resources |-> << [name |-> "vpc", rev |-> 2], [name |-> "subnet", rev |-> 1] >>] }

\* the inventory of an earlier apply, or none
EarlierInventories ==
    { EmptyDict, refresh_resources_properties(EmptyDict, [resources |-> << [name |-> "vpc", rev |-> 1] >>]) }

\* exception_to_error_cause(ex, tb): the exception as a cause
exception_to_error_cause(ex) == ex

\* an _apply that lets the exception of the command through as it is
failed_applying_unwrapped(ex) == ex

\* "raise NonRecoverableError('Failed applying', causes=[...])"
failed_applying(ex) ==
    [type |-> "NonRecoverableError", message |-> "Failed applying",
     causes |-> << exception_to_error_cause(ex) >>]

NoApply == [applies |-> 0, todo |-> << >>, ran |-> << >>, failure |-> << >>,
            raised |-> << >>, before |-> EmptyDict]

InitApply ==
    /\ rp \in EarlierInventories
    /\ op = NoApply
    /\ pc = "idle"
    /\ err = NoError
    /\ fs = EmptyFS
    /\ np = EmptyDict
    /\ tf_state = EmptyDict
    /\ plan_json = EmptyDict
    /\ IdleCodec
    /\ IdleB64

applyIdle == <<fs, cin, arc, b64Vars, plan_json, np>>

\* _apply(tf) is called
StartApply ==
    /\ pc \in { "idle", "returned", "raised" }
    /\ op.applies < MaxApplies
    /\ pc' = "try"
    /\ err' = NoError
    /\ op' = [applies |-> op.applies + 1, todo |-> ApplyCommands, ran |-> << >>,
              failure |-> << >>, raised |-> << >>, before |-> rp]
    /\ UNCHANGED <<rp, tf_state, applyIdle>>

\* the next command of the try block runs: it returns, and state_pull
\* returns the state, or it raises and the except clause raises in turn
RunCommand ==
    /\ pc = "try"
    /\ op.todo # << >>
    /\ \E outcome \in Outcomes(Head(op.todo)), state \in PulledInventories :
          IF outcome.type = "ok"
          THEN /\ op' = [op EXCEPT !.todo = Tail(@), !.ran = Append(@, Head(op.todo))]
               /\ tf_state' = IF Head(op.todo) = "state_pull" THEN state ELSE tf_state
               /\ UNCHANGED <<pc, err>>
          ELSE /\ op' = [op EXCEPT !.todo = << >>, !.ran = Append(@, Head(op.todo)),
                                   !.failure = << outcome >>,
                                   !.raised = << failed_applying(outcome) >>]
               /\ pc' = "raised"
               /\ err' = FailedApplying
               /\ UNCHANGED tf_state
    /\ UNCHANGED <<rp, applyIdle>>

\* utils.refresh_resources_properties(tf_state), after the try block
StoreInventory ==
    /\ pc = "try"
    /\ op.todo = << >>
    /\ rp' = refresh_resources_properties(rp, tf_state)
    /\ pc' = "returned"
    /\ UNCHANGED <<op, err, tf_state, applyIdle>>

NextApply == StartApply \/ RunCommand \/ StoreInventory

SpecApply == InitApply /\ [][NextApply]_vars

\* s is the beginning of t
IsPrefix(s, t) == Len(s) <= Len(t) /\ SubSeq(t, 1, Len(s)) = s

\* C21: the commands _apply has run are init, plan, apply and state_pull,
\* in this order and up to the first that fails; a failure, a non-zero
\* exit with its code and command included, is raised as one
\* NonRecoverableError whose only cause is that failure; the inventory is
\* as it was until all four have succeeded and stays so when one fails.
C21_ApplySequence ==
    /\ IsPrefix(op.ran, <<"init", "plan", "apply", "state_pull">>)
    /\ pc = "raised" =>
          /\ Len(op.failure) = 1 /\ Len(op.raised) = 1
          /\ op.failure[1].cmd = op.ran[Len(op.ran)]
          /\ op.raised[1].type = "NonRecoverableError"
          /\ DOMAIN op.raised[1] = { "type", "message", "causes" }
          /\ op.raised[1].causes = << op.failure[1] >>
          /\ rp = op.before
    /\ pc = "try" => rp = op.before /\ op.failure = << >> /\ op.raised = << >>
    /\ pc = "returned" =>
          /\ op.ran = <<"init", "plan", "apply", "state_pull">>
          /\ op.raised = << >>
          /\ rp = refresh_resources_properties(op.before, tf_state)

\* the second apply of an instance failed in its plan with exit code 2:
\* the inventory of the first is still there
C21_Witness ==
    /\ pc = "raised"
    /\ op.applies = 2
    /\ op.ran = <<"init", "plan">>
    /\ op.raised[1].causes = << [type |-> "CalledProcessError", returncode |-> 2,
                                 cmd |-> "plan"] >>
    /\ DOMAIN DictGet(rp, "resources", EmptyDict) = { "vpc", "subnet" }

====
